---- MODULE Spec2Model ----
(***************************************************************************)
(* A model of fastd's cryptographic core: the record layer shared by all   *)
(* methods (src/methods/common.c) and the ec25519-fhmqvc protocol handler  *)
(* (handshake-key pool, three-message handshake, establish, send/receive). *)
(*                                                                         *)
(* Time is counted in whole seconds.  A nonce (six bytes, little endian)   *)
(* is the integer its bytes spell.  receive_reorder_seen (uint64_t) is the *)
(* set of its set bit positions, a subset of 0..63.                        *)
(***************************************************************************)
EXTENDS Integers, FiniteSets, Sequences, TLC

VARIABLES
    now,        \* ctx->now
    conf,       \* ctx->conf: what the record layer reads of it
    common,     \* record layer alone: one fastd_method_common_t
    commonInitiator, \* record layer alone: the initiator flag it was set up with
    peerSend,   \* record layer alone: send_nonce of the session's other end
    accepted,   \* record layer alone: nonces fastd_method_reorder_check accepted
    lastRecv,   \* record layer alone: what the last inbound nonce met
    node,       \* per daemon: handshake-key pool, peer state, pending tasks
    net,        \* handshake messages sent so far (any may be delivered, again)
    wire,       \* data packets sent so far (any may be delivered, again)
    nkeys,      \* per daemon: handshake keys generated so far
    nsess,      \* per daemon: method states session_init has created so far
    estab,      \* what each run of establish was given and derived
    ev,         \* what the last handler run did
    ciphers,    \* the list of supported ciphers and their implementations
    cipher_conf, \* the list of chosen cipher implementations
    cipherEv    \* what the last call into the cipher registry was and returned

commonVars == <<conf, common, commonInitiator, peerSend, accepted, lastRecv>>
protoVars == <<node, net, wire, nkeys, nsess, estab, ev>>
cipherVars == <<ciphers, cipher_conf, cipherEv>>
vars == <<now, conf, common, commonInitiator, peerSend, accepted, lastRecv,
          node, net, wire, nkeys, nsess, estab, ev,
          ciphers, cipher_conf, cipherEv>>

----------------------------------------------------------------------------
(* Configuration (ctx->conf) and the bounds of the model *)

ReorderCount == 2     \* reorder_count of the configuration, but where stated
reorder_time == 1
key_valid == 35
key_refresh == 20
key_refresh_splay == 0
keepalive_interval == 10

MaxNonce == 7        \* record layer alone: inbound and sent nonces
MaxTime == 3         \* record layer alone: the clock stops here
TickStep == 15       \* seconds the clock advances at once
MaxClock == 30       \* the clock stops here
MaxKeys == 3         \* two daemons: handshake keys generated in all
MaxSessions == 2     \* two daemons: sessions established in all
MaxPeerClock == 45   \* one peer: the clock stops here
MaxSendNonce == 3    \* payload is sent while send_nonce <= this
MaxEstablish == 2    \* one peer: runs of establish in all
MaxPktNonce == 4     \* one peer: nonces of the inbound packets

----------------------------------------------------------------------------
(* Integer arithmetic of C *)

\* a / b of C for b > 0: the quotient truncated toward zero
CDiv(a, b) == IF a >= 0 THEN a \div b ELSE -((-a) \div b)

\* x >> k on uint64_t for 0 <= k <= 63, x a set of bit positions
ShiftRight(x, k) == { b - k : b \in { c \in x : c >= k } }

\* receive_reorder_seen >>= age with age < 0.  A negative shift count is
\* undefined in C; the builds either mask the count to six bits (x86-64,
\* AArch64) or shift everything out (32-bit targets: count taken as >= 64).
ShrSeenOutcomes(seen, age) == { ShiftRight(seen, age % 64), {} }

\* (1 >> k) with the int constant 1 and k <= 0.  k = 0 is defined; a negative
\* count is undefined: masked to five bits (x86) or everything shifted out.
ShrOneOutcomes(k) ==
    IF k = 0 THEN { {0} }
    ELSE { IF k % 32 = 0 THEN {0} ELSE {}, {} }

\* (1 << k) with the int constant 1, converted to uint64_t, for k >= 0.
\* k <= 30 is defined.  k = 31 gives INT_MIN, which sign-extends to bits
\* 31..63.  k >= 32 is undefined: count masked to five bits, or zero.
ShlOneOutcomes(k) ==
    IF k <= 30 THEN { {k} }
    ELSE IF k = 31 THEN { 31..63 }
    ELSE { IF k % 32 = 31 THEN 31..63 ELSE {k % 32}, {} }

----------------------------------------------------------------------------
(* src/methods/common.c *)

\* ctx->conf->reorder_count
reorder_count == conf.reorder_count

\* fastd_method_common_init without the responder's receive_nonce[0] = 1
common_init_NoReceiveParity(t, initiator, splay) ==
    [ valid_till           |-> t + key_valid,
      refresh_after        |-> t + key_refresh - splay,
      send_nonce           |-> IF initiator THEN 3 ELSE 2,
      receive_nonce        |-> 0,
      receive_reorder_seen |-> {},
      receive_last         |-> 0 ]

\* splay is the value fastd_rand(ctx, 0, key_refresh_splay) returned
fastd_method_common_init(t, initiator, splay) ==
    [ valid_till           |-> t + key_valid,
      refresh_after        |-> t + key_refresh - splay,
      send_nonce           |-> IF initiator THEN 3 ELSE 2,
      receive_nonce        |-> IF initiator THEN 0 ELSE 1,
      receive_reorder_seen |-> {},
      receive_last         |-> 0 ]

\* *age as the loop over the six bytes and the division by two leave it
NonceAge(session, nonce) == CDiv(session.receive_nonce - nonce, 2)

ParityOk(session, nonce) == (nonce % 2) = (session.receive_nonce % 2)

\* fastd_method_is_nonce_valid without the reorder_time test of lines 62-63
is_nonce_valid_NoTime(t, session, nonce) ==
    IF ~ParityOk(session, nonce) THEN FALSE
    ELSE LET age == NonceAge(session, nonce) IN
         IF age >= 0
         THEN IF age > reorder_count THEN FALSE
              ELSE TRUE
         ELSE TRUE

\* lines 48-71
fastd_method_is_nonce_valid(t, session, nonce) ==
    IF ~ParityOk(session, nonce) THEN FALSE
    ELSE LET age == NonceAge(session, nonce) IN
         IF age >= 0
         THEN IF t - session.receive_last > reorder_time THEN FALSE
              ELSE IF age > reorder_count THEN FALSE
              ELSE TRUE
         ELSE TRUE

\* fastd_method_reorder_check copying the nonce (line 77) before it looks for
\* a duplicate: a dropped packet moves receive_nonce
reorder_check_CopyFirst(t, session, nonce, age) ==
    IF age < 0
    THEN { [ ok |-> TRUE,
             session |-> [session EXCEPT
                 !.receive_reorder_seen = s \cup o,
                 !.receive_nonce = nonce,
                 !.receive_last = t] ] :
           s \in ShrSeenOutcomes(session.receive_reorder_seen, age),
           o \in ShrOneOutcomes(age + 1) }
    ELSE { IF age = 0 \/ (session.receive_reorder_seen \cap m) # {}
           THEN [ ok |-> FALSE,
                  session |-> [session EXCEPT !.receive_nonce = nonce] ]
           ELSE [ ok |-> TRUE,
                  session |-> [session EXCEPT
                      !.receive_reorder_seen = @ \cup m] ] :
           m \in ShlOneOutcomes(age - 1) }

\* fastd_method_reorder_check with lines 77-78 also in the branch that accepts
\* a reordered packet: an older nonce becomes receive_nonce
reorder_check_CopyOlder(t, session, nonce, age) ==
    IF age < 0
    THEN { [ ok |-> TRUE,
             session |-> [session EXCEPT
                 !.receive_reorder_seen = s \cup o,
                 !.receive_nonce = nonce,
                 !.receive_last = t] ] :
           s \in ShrSeenOutcomes(session.receive_reorder_seen, age),
           o \in ShrOneOutcomes(age + 1) }
    ELSE { IF age = 0 \/ (session.receive_reorder_seen \cap m) # {}
           THEN [ ok |-> FALSE, session |-> session ]
           ELSE [ ok |-> TRUE,
                  session |-> [session EXCEPT
                      !.receive_reorder_seen = @ \cup m,
                      !.receive_nonce = nonce,
                      !.receive_last = t] ] :
           m \in ShlOneOutcomes(age - 1) }

\* The set of results the call can have: [ok, session] with session the
\* common state it leaves behind.
fastd_method_reorder_check(t, session, nonce, age) ==
    IF age < 0
    THEN { [ ok |-> TRUE,
             session |-> [session EXCEPT
                 !.receive_reorder_seen = s \cup o,
                 !.receive_nonce = nonce,
                 !.receive_last = t] ] :
           s \in ShrSeenOutcomes(session.receive_reorder_seen, age),
           o \in ShrOneOutcomes(age + 1) }
    ELSE { IF age = 0 \/ (session.receive_reorder_seen \cap m) # {}
           THEN [ ok |-> FALSE, session |-> session ]
           ELSE [ ok |-> TRUE,
                  session |-> [session EXCEPT
                      !.receive_reorder_seen = @ \cup m] ] :
           m \in ShlOneOutcomes(age - 1) }

\* What a method's decrypt does with the nonce of a packet whose
\* authentication tag verifies: is_nonce_valid, then reorder_check.
NonceResults(t, session, nonce) ==
    IF ~fastd_method_is_nonce_valid(t, session, nonce)
    THEN { [ ok |-> FALSE, session |-> session ] }
    ELSE fastd_method_reorder_check(t, session, nonce, NonceAge(session, nonce))

\* The method advances send_nonce by 2 on every encrypt.  Every nonce of the
\* model stays below MaxNonce, far from the 48-bit ceiling, so no carry out of
\* the sixth byte is modelled.
IncrementNonce(session) ==
    [session EXCEPT !.send_nonce = @ + 2]

----------------------------------------------------------------------------
(* The primitives the protocol calls (libuecc, NaCl).  The group is the     *)
(* additive group of the integers modulo GroupOrder; a point is written    *)
(* <<"pt", k>> for k times the base point, a scalar is a residue.          *)

GroupOrder == 11

Nodes == {1, 2}
Other(n) == 3 - n

Point(k) == <<"pt", k % GroupOrder>>
ecc_25519_scalarmult_base(s) == Point(s)
ecc_25519_scalarmult(s, P) == Point(s * P[2])
ecc_25519_add(P, Q) == Point(P[2] + Q[2])
ecc_25519_is_identity(P) == P[2] = 0
ecc_25519_secret_mult(a, b) == (a * b) % GroupOrder
ecc_25519_secret_add(a, b) == (a + b) % GroupOrder

\* crypto_hash_sha256 over four public keys, cut in two halves with the top
\* bit of each set (d.s[15] |= 0x80): two scalars that are never zero
HashD(K1, K2, K3, K4) ==
    1 + ((K1[2] + 2 * K2[2] + 3 * K3[2] + 4 * K4[2]) % (GroupOrder - 1))
HashE(K1, K2, K3, K4) ==
    1 + ((2 * K1[2] + K2[2] + 4 * K3[2] + 3 * K4[2]) % (GroupOrder - 1))

\* crypto_hash_sha256 over five public keys: collision free
SessionHash(K1, K2, K3, K4, sigma) == <<K1[2], K2[2], K3[2], K4[2], sigma[2]>>

\* crypto_auth_hmacsha256 over two public keys under key k
Hmac(K1, K2, k) == <<"hmac", k, K1[2], K2[2]>>

\* ctx->conf->protocol_config of daemon n, and its only peer's configured key
secret_key(n) == n
public_key(n) == ecc_25519_scalarmult_base(secret_key(n))
peer_public_key(n) == public_key(Other(n))

\* fastd_random_bytes and ecc_25519_secret_sanitize: the scalar daemon n draws
\* for its k-th handshake key, one that no daemon has drawn or holds
FreshScalar(n, k) == 2 + n + 2 * k

----------------------------------------------------------------------------
(* Handshake-key pool *)

ZeroKey == [ preferred_till |-> 0, valid_till |-> 0,
             secret_key |-> 0, public_key |-> <<"pt", 0>> ]

\* is_handshake_key_valid that forgets to look at the clock
is_handshake_key_valid_NoClock(t, handshake_key) ==
    handshake_key.valid_till > 0

is_handshake_key_valid(t, handshake_key) == handshake_key.valid_till > t

is_handshake_key_preferred(t, handshake_key) ==
    handshake_key.preferred_till > t

NeedsNewKey(st, t) == ~is_handshake_key_preferred(t, st.handshake_key)

\* maintenance that keeps the current key for as long as it is valid
maintenance_WhileValid(st, t, fresh) ==
    IF ~is_handshake_key_valid(t, st.handshake_key)
    THEN [st EXCEPT
            !.prev_handshake_key = st.handshake_key,
            !.handshake_key =
                [ preferred_till |-> t + 15,
                  valid_till |-> t + 30,
                  secret_key |-> fresh,
                  public_key |-> ecc_25519_scalarmult_base(fresh) ]]
    ELSE st

\* maintenance that generates a key at every call
maintenance_Always(st, t, fresh) ==
    [st EXCEPT
        !.prev_handshake_key = st.handshake_key,
        !.handshake_key =
            [ preferred_till |-> t + 15,
              valid_till |-> t + 30,
              secret_key |-> fresh,
              public_key |-> ecc_25519_scalarmult_base(fresh) ]]

\* fresh is the scalar fastd_random_bytes and the sanitizing leave
maintenance(st, t, fresh) ==
    IF ~is_handshake_key_preferred(t, st.handshake_key)
    THEN [st EXCEPT
            !.prev_handshake_key = st.handshake_key,
            !.handshake_key =
                [ preferred_till |-> t + 15,
                  valid_till |-> t + 30,
                  secret_key |-> fresh,
                  public_key |-> ecc_25519_scalarmult_base(fresh) ]]
    ELSE st

----------------------------------------------------------------------------
(* The method (ctx->conf->method) and the protocol's sessions *)

NULL == [ null |-> TRUE ]

session_init(id, secret, initiator, t, splay) ==
    [ id |-> id, secret |-> secret, initiator |-> initiator,
      common |-> fastd_method_common_init(t, initiator, splay) ]

session_is_valid(t, ms) == ms # NULL /\ t < ms.common.valid_till
session_is_initiator(ms) == ms.initiator
session_want_refresh(t, ms) == t >= ms.common.refresh_after

\* session_free: ms joins the freed states; freeing NULL does nothing, and
\* freeing a state twice is remembered.
session_free(st, ms) ==
    IF ms = NULL THEN st
    ELSE [st EXCEPT !.freed = @ \cup {ms.id},
                    !.double_free = @ \/ ms.id \in st.freed]

\* encrypt: the packet, under the state's key with its send_nonce
method_encrypt(ms, to, len) ==
    [ to |-> to, key |-> ms.secret, nonce |-> ms.common.send_nonce, len |-> len ]

\* decrypt: the results [ok, ms] it can have.  The tag verifies only under
\* the key of the state; then the nonce checks of the record layer decide.
method_decrypt(t, ms, pkt) ==
    IF ms = NULL \/ pkt.key # ms.secret
    THEN { [ ok |-> FALSE, ms |-> ms ] }
    ELSE { [ ok |-> r.ok, ms |-> [ms EXCEPT !.common = r.session] ] :
           r \in NonceResults(t, ms.common, pkt.nonce) }

ZeroSession ==
    [ handshakes_cleaned |-> FALSE, refreshing |-> FALSE, method_state |-> NULL ]

is_session_valid(t, session) == session_is_valid(t, session.method_state)

\* check_session_refresh that does not look at the refreshing flag
check_session_refresh_Again(st, t) ==
    IF /\ session_is_initiator(st.session.method_state)
       /\ session_want_refresh(t, st.session.method_state)
    THEN [st EXCEPT !.session.refreshing = TRUE, !.handshake_task = TRUE,
                    !.refreshes = Append(@, st.session.method_state.id)]
    ELSE st

\* lines 124-132
check_session_refresh(st, t) ==
    IF /\ ~st.session.refreshing
       /\ session_is_initiator(st.session.method_state)
       /\ session_want_refresh(t, st.session.method_state)
    THEN [st EXCEPT !.session.refreshing = TRUE, !.handshake_task = TRUE,
                    !.refreshes = Append(@, st.session.method_state.id)]
    ELSE st

\* What a handler run hands back: the daemon's state after it, the handshake
\* messages and data packets it sent, a note of each protocol_send, and what
\* session_init was given
Result(st) ==
    [ st |-> st, msgs |-> <<>>, pkts |-> <<>>, sends |-> <<>>, inits |-> <<>> ]

\* protocol_send, lines 653-660: the session to encrypt with
SendSlot(st, t) ==
    IF session_is_initiator(st.session.method_state)
       /\ is_session_valid(t, st.old_session)
    THEN "old_session" ELSE "session"

\* enc_ok: whether the method's encrypt succeeds
protocol_send(st, n, t, len, enc_ok) ==
    IF ~is_session_valid(t, st.session)
    THEN [Result(st) EXCEPT !.sends = <<[used |-> "fail", cleaned |-> FALSE,
                                          initiator |-> FALSE, len |-> len]>>]
    ELSE LET st1 == check_session_refresh(st, t)
             slot == SendSlot(st1, t)
             ms == st1[slot].method_state
             note == [ used |-> IF enc_ok THEN slot ELSE "fail",
                       cleaned |-> st1.session.handshakes_cleaned,
                       initiator |-> session_is_initiator(st1.session.method_state),
                       len |-> len ]
         IN IF ~enc_ok
            THEN [Result(st1) EXCEPT !.sends = <<note>>]
            ELSE [ st |-> [st1 EXCEPT
                        ![slot].method_state.common = IncrementNonce(@),
                        !.keepalives = <<t + keepalive_interval>>],
                   msgs |-> <<>>,
                   pkts |-> <<method_encrypt(ms, Other(n), len)>>,
                   sends |-> <<note>>,
                   inits |-> <<>> ]

----------------------------------------------------------------------------
(* protocol_handle_recv *)

RecvResult(r, freed, handed, via) ==
    [ st |-> r.st, msgs |-> r.msgs, pkts |-> r.pkts, sends |-> r.sends,
      inits |-> r.inits, freed |-> freed, handed |-> handed, via |-> via ]

\* lines 619-623 left out: the old session stays
InvalidateOld_Skipped(st) == st

\* lines 619-623 ending the current session's validity instead of the old's
InvalidateOld_WrongSlot(st) ==
    IF st.old_session.method_state # NULL
    THEN [st EXCEPT !.session.method_state.common.valid_till = 0]
    ELSE st

\* lines 619-623
InvalidateOld(st) ==
    IF st.old_session.method_state # NULL
    THEN [session_free(st, st.old_session.method_state) EXCEPT
              !.old_session.method_state = NULL]
    ELSE st

\* lines 610-617
CleanHandshakes(st, n, t) ==
    IF ~st.session.handshakes_cleaned
    THEN LET st1 == [st EXCEPT !.handshake_task = FALSE,
                               !.session.handshakes_cleaned = TRUE]
         IN IF session_is_initiator(st1.session.method_state)
            THEN protocol_send(st1, n, t, 0, TRUE)
            ELSE Result(st1)
    ELSE Result(st)

\* lines 608-625: the current session has decrypted the packet
RecvViaCurrent(st, n, t) ==
    LET r == CleanHandshakes(st, n, t)
    IN [r EXCEPT !.st = check_session_refresh(InvalidateOld(r.st), t)]

\* the fail label without its fastd_buffer_free
RecvFail_Leak(st) == RecvResult(Result(st), 0, 0, "none")

\* the fail label scheduling a handshake whoever the packet is from
RecvFail_Schedule(st) ==
    RecvResult(Result([st EXCEPT !.handshake_task = TRUE]), 1, 0, "none")

\* the fail label, lines 643-644
RecvFail(st) == RecvResult(Result(st), 1, 0, "none")

\* lines 634-641: the plaintext goes up or, empty, is freed.  fastd_peer_seen
\* stamps peer->seen, which nothing here reads.
RecvDone(r, t, len, via) ==
    RecvResult(r, IF len = 0 THEN 1 ELSE 0, IF len = 0 THEN 0 ELSE 1, via)

\* lines 601-604 skipped: the old session is never tried
TryOld_Never(st, t, pkt) ==
    { [ ok |-> FALSE, ms |-> st.old_session.method_state ] }

\* lines 601-604: the old session is tried first, if it is valid
TryOld(st, t, pkt) ==
    IF is_session_valid(t, st.old_session)
    THEN method_decrypt(t, st.old_session.method_state, pkt)
    ELSE { [ ok |-> FALSE, ms |-> st.old_session.method_state ] }

\* The results the call can have.  decrypt works on the method state in
\* place: what it leaves there stays, whatever it returns.
protocol_handle_recv(st, n, t, pkt) ==
    IF ~st.established
    THEN { RecvFail([st EXCEPT !.handshake_task = TRUE]) }
    ELSE IF ~is_session_valid(t, st.session)
    THEN { RecvFail(st) }
    ELSE UNION {
        IF o.ok
        THEN { RecvDone(Result([st EXCEPT !.old_session.method_state = o.ms]),
                        t, pkt.len, "old_session") }
        ELSE { IF c.ok
               THEN RecvDone(RecvViaCurrent(
                                 [st EXCEPT !.old_session.method_state = o.ms,
                                            !.session.method_state = c.ms], n, t),
                             t, pkt.len, "session")
               ELSE RecvFail([st EXCEPT !.old_session.method_state = o.ms,
                                        !.session.method_state = c.ms]) :
               c \in method_decrypt(t, st.session.method_state, pkt) } :
        o \in TryOld(st, t, pkt) }

----------------------------------------------------------------------------
(* establish *)

\* fastd_peer_reset: the protocol state is freed (protocol_free_peer_state),
\* the peer is no longer established and its tasks are dropped
fastd_peer_reset(st) ==
    LET st1 == session_free(st, st.old_session.method_state)
        st2 == session_free(st1, st.session.method_state)
    IN [st2 EXCEPT !.old_session = ZeroSession, !.session = ZeroSession,
                   !.established = FALSE, !.handshake_task = FALSE,
                   !.keepalives = <<>>]

\* lines 310-316 with the condition of line 310 taken as true: the current
\* session always moves to the previous slot
Rollover_AlwaysMove(st, t) ==
    [session_free(st, st.old_session.method_state) EXCEPT
        !.old_session = st.session]

\* lines 310-316
Rollover(st, t) ==
    IF is_session_valid(t, st.session) /\ ~is_session_valid(t, st.old_session)
    THEN [session_free(st, st.old_session.method_state) EXCEPT
              !.old_session = st.session]
    ELSE session_free(st, st.session.method_state)

\* establish without lines 343-344: the responder sends nothing
establish_NoConfirm(st, n, t, initiator, A, B, X, Y, sigma, id, splay, claim_ok) ==
    LET hash == SessionHash(X, Y, A, B, sigma)
        st1 == [Rollover(st, t) EXCEPT
                   !.session = [ handshakes_cleaned |-> FALSE,
                                 refreshing |-> FALSE,
                                 method_state |->
                                     session_init(id, hash, initiator, t, splay) ]]
        init == << [ secret |-> hash, initiator |-> initiator ] >>
    IN IF ~claim_ok
       THEN [Result(fastd_peer_reset(st1)) EXCEPT !.inits = init]
       ELSE [Result([st1 EXCEPT !.established = TRUE,
                                !.keepalives = Append(@, t + keepalive_interval)])
                EXCEPT !.inits = init]

\* establish without lines 331-335: it goes on when the address claim fails
establish_IgnoreClaim(st, n, t, initiator, A, B, X, Y, sigma, id, splay, claim_ok) ==
    LET hash == SessionHash(X, Y, A, B, sigma)
        st1 == [Rollover(st, t) EXCEPT
                   !.session = [ handshakes_cleaned |-> FALSE,
                                 refreshing |-> FALSE,
                                 method_state |->
                                     session_init(id, hash, initiator, t, splay) ]]
        init == << [ secret |-> hash, initiator |-> initiator ] >>
        st2 == [st1 EXCEPT !.established = TRUE,
                           !.keepalives = Append(@, t + keepalive_interval)]
    IN IF ~initiator
       THEN [protocol_send(st2, n, t, 0, TRUE) EXCEPT !.inits = init]
       ELSE [Result(st2) EXCEPT !.inits = init]

\* A, B, X, Y as establish names its parameters: the initiator's and the
\* responder's handshake keys, then their long-term keys
establish(st, n, t, initiator, A, B, X, Y, sigma, id, splay, claim_ok) ==
    LET hash == SessionHash(X, Y, A, B, sigma)
        st1 == [Rollover(st, t) EXCEPT
                   !.session = [ handshakes_cleaned |-> FALSE,
                                 refreshing |-> FALSE,
                                 method_state |->
                                     session_init(id, hash, initiator, t, splay) ]]
        init == << [ secret |-> hash, initiator |-> initiator ] >>
    IN IF ~claim_ok
       THEN [Result(fastd_peer_reset(st1)) EXCEPT !.inits = init]
       ELSE LET st2 == [st1 EXCEPT !.established = TRUE,
                                   !.keepalives = Append(@, t + keepalive_interval)]
            IN IF ~initiator
               THEN [protocol_send(st2, n, t, 0, TRUE) EXCEPT !.inits = init]
               ELSE [Result(st2) EXCEPT !.inits = init]

----------------------------------------------------------------------------
(* Handshake messages *)

\* handshake->records[type]: no record leaves the length 0
NoRecord == [ length |-> 0, data |-> <<"pt", 0>> ]
Record(data) == [ length |-> 32, data |-> data ]

has_field(record, length) == record.length = length

Handshake(to, type, sender_key, recipient_key, sender_hk, recipient_hk, T) ==
    [ to |-> to, type |-> type, known |-> TRUE,
      sender_key |-> sender_key, recipient_key |-> recipient_key,
      sender_hk |-> sender_hk, recipient_hk |-> recipient_hk, T |-> T ]

\* What handling a handshake hands back, beyond Result: how it ended, the
\* handshake key it used, and what establish was given if it ran
HsResult(r, outcome, slot, est) ==
    [ st |-> r.st, msgs |-> r.msgs, pkts |-> r.pkts, sends |-> r.sends,
      inits |-> r.inits, outcome |-> outcome, slot |-> slot, est |-> est ]

\* lines 216-231
protocol_handshake_init(st, n, t, fresh) ==
    LET st0 == maintenance(st, t, fresh)
    IN [Result(st0) EXCEPT !.msgs =
        << Handshake(Other(n), 1,
                     Record(public_key(n)), Record(peer_public_key(n)),
                     Record(st0.handshake_key.public_key), NoRecord, NoRecord) >>]

\* sigma as respond_handshake and handle_finish_handshake compute it
ResponderSigma(n, hkey, peer_hk) ==
    LET d == HashD(hkey.public_key, peer_hk, public_key(n), peer_public_key(n))
        e == HashE(hkey.public_key, peer_hk, public_key(n), peer_public_key(n))
        eb == ecc_25519_secret_mult(e, secret_key(n))
        s == ecc_25519_secret_add(eb, hkey.secret_key)
        work == ecc_25519_scalarmult(d, peer_public_key(n))
    IN ecc_25519_scalarmult(s, ecc_25519_add(work, peer_hk))

\* sigma as finish_handshake computes it
InitiatorSigma(n, hkey, peer_hk) ==
    LET d == HashD(peer_hk, hkey.public_key, peer_public_key(n), public_key(n))
        e == HashE(peer_hk, hkey.public_key, peer_public_key(n), public_key(n))
        da == ecc_25519_secret_mult(d, secret_key(n))
        s == ecc_25519_secret_add(da, hkey.secret_key)
        work == ecc_25519_scalarmult(e, peer_public_key(n))
    IN ecc_25519_scalarmult(s, ecc_25519_add(work, peer_hk))

\* respond_handshake without lines 266-267: it replies whatever sigma is
respond_handshake_NoIdentityCheck(st, n, hkey, slot, peer_hk) ==
    LET sigma == ResponderSigma(n, hkey, peer_hk)
        shared_handshake_key ==
            SessionHash(hkey.public_key, peer_hk, public_key(n),
                        peer_public_key(n), sigma)
        hmacbuf == Hmac(public_key(n), hkey.public_key, shared_handshake_key)
    IN HsResult([Result(st) EXCEPT !.msgs =
                << Handshake(Other(n), 2,
                       Record(public_key(n)), Record(peer_public_key(n)),
                       Record(hkey.public_key), Record(peer_hk),
                       Record(hmacbuf)) >>],
                "responded", slot, {})

\* respond_handshake that takes the peer for established as it replies
respond_handshake_Establishing(st, n, hkey, slot, peer_hk) ==
    LET sigma == ResponderSigma(n, hkey, peer_hk)
        shared_handshake_key ==
            SessionHash(hkey.public_key, peer_hk, public_key(n),
                        peer_public_key(n), sigma)
        hmacbuf == Hmac(public_key(n), hkey.public_key, shared_handshake_key)
        r == establish(st, n, now, FALSE, peer_hk, hkey.public_key,
                       peer_public_key(n), public_key(n), sigma,
                       <<n, nsess[n] + 1>>, 0, TRUE)
    IN IF ecc_25519_is_identity(sigma)
       THEN HsResult(Result(st), "identity", slot, {})
       ELSE HsResult([Result(r.st) EXCEPT !.msgs =
                << Handshake(Other(n), 2,
                       Record(public_key(n)), Record(peer_public_key(n)),
                       Record(hkey.public_key), Record(peer_hk),
                       Record(hmacbuf)) >>],
                "responded", slot, {})

\* lines 233-290
respond_handshake(st, n, hkey, slot, peer_hk) ==
    LET sigma == ResponderSigma(n, hkey, peer_hk)
        shared_handshake_key ==
            SessionHash(hkey.public_key, peer_hk, public_key(n),
                        peer_public_key(n), sigma)
        hmacbuf == Hmac(public_key(n), hkey.public_key, shared_handshake_key)
    IN IF ecc_25519_is_identity(sigma)
       THEN HsResult(Result(st), "identity", slot, {})
       ELSE HsResult([Result(st) EXCEPT !.msgs =
                << Handshake(Other(n), 2,
                       Record(public_key(n)), Record(peer_public_key(n)),
                       Record(hkey.public_key), Record(peer_hk),
                       Record(hmacbuf)) >>],
                "responded", slot, {})

\* What one run of establish was called for and gave session_init
EstLog(n, hkey, peer_hk, sigma, r) ==
    [ node |-> n, hk |-> hkey.public_key, peer_hk |-> peer_hk, sigma |-> sigma,
      initiator |-> r.inits[1].initiator, secret |-> r.inits[1].secret ]

\* finish_handshake without lines 393-396: T is not verified
finish_handshake_NoVerify(st, n, t, hkey, slot, peer_hk, T, id, splay, claim_ok) ==
    LET sigma == InitiatorSigma(n, hkey, peer_hk)
        shared_handshake_key ==
            SessionHash(peer_hk, hkey.public_key, peer_public_key(n),
                        public_key(n), sigma)
        hmacbuf == Hmac(public_key(n), hkey.public_key, shared_handshake_key)
        reply == Handshake(Other(n), 3,
                     Record(public_key(n)), Record(peer_public_key(n)),
                     Record(hkey.public_key), Record(peer_hk), Record(hmacbuf))
        r == establish(st, n, t, TRUE, hkey.public_key, peer_hk,
                       public_key(n), peer_public_key(n), sigma,
                       id, splay, claim_ok)
    IN IF ecc_25519_is_identity(sigma)
       THEN HsResult(Result(st), "identity", slot, {})
       ELSE HsResult([r EXCEPT !.msgs = <<reply>>], "established", slot,
                { EstLog(n, hkey, peer_hk, sigma, r) })

\* lines 347-414
finish_handshake(st, n, t, hkey, slot, peer_hk, T, id, splay, claim_ok) ==
    LET sigma == InitiatorSigma(n, hkey, peer_hk)
        shared_handshake_key ==
            SessionHash(peer_hk, hkey.public_key, peer_public_key(n),
                        public_key(n), sigma)
        hmacbuf == Hmac(public_key(n), hkey.public_key, shared_handshake_key)
        reply == Handshake(Other(n), 3,
                     Record(public_key(n)), Record(peer_public_key(n)),
                     Record(hkey.public_key), Record(peer_hk), Record(hmacbuf))
        r == establish(st, n, t, TRUE, hkey.public_key, peer_hk,
                       public_key(n), peer_public_key(n), sigma,
                       id, splay, claim_ok)
    IN IF ecc_25519_is_identity(sigma)
       THEN HsResult(Result(st), "identity", slot, {})
       ELSE IF T.data # Hmac(peer_public_key(n), peer_hk, shared_handshake_key)
       THEN HsResult(Result(st), "invalid", slot, {})
       ELSE HsResult([r EXCEPT !.msgs = <<reply>>], "established", slot,
                { EstLog(n, hkey, peer_hk, sigma, r) })

\* establish as handle_finish_handshake would call it with the two handshake
\* keys in the wrong order
HandleFinishEstablish_Swapped(st, n, t, hkey, peer_hk, sigma, id, splay, claim_ok) ==
    establish(st, n, t, FALSE, hkey.public_key, peer_hk,
              peer_public_key(n), public_key(n), sigma, id, splay, claim_ok)

\* lines 466-467
HandleFinishEstablish(st, n, t, hkey, peer_hk, sigma, id, splay, claim_ok) ==
    establish(st, n, t, FALSE, peer_hk, hkey.public_key,
              peer_public_key(n), public_key(n), sigma, id, splay, claim_ok)

\* lines 416-468
handle_finish_handshake(st, n, t, hkey, slot, peer_hk, T, id, splay, claim_ok) ==
    LET sigma == ResponderSigma(n, hkey, peer_hk)
        shared_handshake_key ==
            SessionHash(hkey.public_key, peer_hk, public_key(n),
                        peer_public_key(n), sigma)
        r == HandleFinishEstablish(st, n, t, hkey, peer_hk, sigma,
                                   id, splay, claim_ok)
    IN IF ecc_25519_is_identity(sigma)
       THEN HsResult(Result(st), "identity", slot, {})
       ELSE IF T.data # Hmac(peer_public_key(n), peer_hk, shared_handshake_key)
       THEN HsResult(Result(st), "invalid", slot, {})
       ELSE HsResult(r, "established", slot,
                { EstLog(n, hkey, peer_hk, sigma, r) })

----------------------------------------------------------------------------
(* protocol_handshake_handle *)

\* ctx->conf->peers of each daemon: one peer, the other daemon, with a fixed
\* address (neither floating nor dynamic)
peer_is_floating == FALSE
peer_is_dynamic == FALSE

\* lines 470-495.  known: the source address is the configured peer's, so the
\* caller passes its peer_conf.  TRUE when a peer_conf is returned.
match_sender_key(n, known, key) ==
    IF known /\ peer_public_key(n) = key THEN TRUE
    ELSE IF ~known \/ peer_is_floating \/ peer_is_dynamic
    THEN peer_is_floating /\ peer_public_key(n) = key
    ELSE FALSE

\* lines 549-558 and 566-575: the pool entry the message refers to
KeySlot(st, t, recipient_hk) ==
    IF /\ is_handshake_key_valid(t, st.handshake_key)
       /\ st.handshake_key.public_key = recipient_hk
    THEN "handshake_key"
    ELSE IF /\ is_handshake_key_valid(t, st.prev_handshake_key)
            /\ st.prev_handshake_key.public_key = recipient_hk
    THEN "prev_handshake_key"
    ELSE "none"

\* lines 501-585
protocol_handshake_handle(st, n, t, m, fresh, id, splay, claim_ok) ==
    LET st0 == maintenance(st, t, fresh)
        drop(why) == HsResult(Result(st0), why, "none", {})
        slot == KeySlot(st0, t, m.recipient_hk.data)
    IN IF ~has_field(m.sender_key, 32) THEN drop("no sender key")
       ELSE IF ~match_sender_key(n, m.known, m.sender_key.data)
       THEN drop("unknown key")
       ELSE IF m.type > 1 /\ ~has_field(m.recipient_key, 32)
       THEN drop("no recipient key")
       ELSE IF /\ has_field(m.recipient_key, 32)
               /\ m.recipient_key.data # public_key(n)
       THEN drop("wrong recipient key")
       ELSE IF ~has_field(m.sender_hk, 32) THEN drop("no sender handshake key")
       ELSE IF m.type > 1 /\ ~has_field(m.recipient_hk, 32)
       THEN drop("no recipient handshake key")
       ELSE IF m.type > 1 /\ ~has_field(m.T, 32) THEN drop("no T")
       ELSE IF m.type = 1
       THEN respond_handshake(st0, n, st0.handshake_key, "handshake_key",
                              m.sender_hk.data)
       ELSE IF m.type = 2
       THEN IF slot = "none" THEN drop("unexpected handshake key")
            ELSE finish_handshake(st0, n, t, st0[slot], slot, m.sender_hk.data,
                                  m.T, id, splay, claim_ok)
       ELSE IF m.type = 3
       THEN IF slot = "none" THEN drop("unexpected handshake key")
            ELSE handle_finish_handshake(st0, n, t, st0[slot], slot,
                                         m.sender_hk.data, m.T, id, splay,
                                         claim_ok)
       ELSE drop("unknown type")

----------------------------------------------------------------------------
(* The cipher registry *)

MaxImpls == 2   \* implementations a cipher has at most

\* What the available member of a fastd_cipher_t is: no probe, or a probe
\* and what it returns on this platform
Probes == {"none", "true", "false"}

\* The names of the supported ciphers, in the order of the list
CipherNames == <<"aes128-ctr", "salsa20">>

\* The NULL-terminated array of implementations of cipher i whose probes are
\* p, in order
Impls(i, p) ==
    [ j \in 1..Len(p) + 1 |->
        IF j <= Len(p)
        THEN [ name |-> <<"impl", j>>,
               impl |-> [ id |-> <<i, j>>, available |-> p[j] ] ]
        ELSE [ name |-> NULL, impl |-> NULL ] ]

\* The list of supported ciphers when the probes of cipher i are ps[i]
Ciphers(ps) ==
    [ i \in 1..Len(ps) |->
        [ name |-> CipherNames[i], info |-> <<"info", CipherNames[i]>>,
          impls |-> Impls(i, ps[i]) ] ]

\* A build with an unconditional first cipher and a second one whose
\* preferred implementation needs a CPU feature
BuiltCiphers == Ciphers(<< <<"none">>, <<"false", "none">> >>)

NoCipherEv == [ op |-> "none", name |-> "", impl |-> NULL, result |-> NULL ]

\* The registry as the program starts with it: nothing chosen
CipherStart(cs) ==
    /\ ciphers = cs
    /\ cipher_conf = [ i \in 1..Len(cs) |-> NULL ]
    /\ cipherEv = NoCipherEv

\* lines 45-47
cipher_available(cipher) ==
    cipher.available = "none" \/ cipher.available = "true"

\* The j the loop of lines 52-55 ends with when it starts at j
RECURSIVE init_loop(_, _)
init_loop(impls, j) ==
    IF impls[j].impl = NULL THEN j
    ELSE IF cipher_available(impls[j].impl) THEN j
    ELSE init_loop(impls, j + 1)

\* fastd_cipher_init that takes the first implementation, available or not
fastd_cipher_init_First(cs) ==
    [ i \in 1..Len(cs) |-> cs[i].impls[1].impl ]

\* lines 49-59: the cipher_conf it leaves
fastd_cipher_init(cs) ==
    [ i \in 1..Len(cs) |-> cs[i].impls[init_loop(cs[i].impls, 1)].impl ]

\* The i at which the loops over ciphers (lines 63, 85) find name, from i
\* on; 0 if they run to the end of the list
RECURSIVE cipher_index(_, _, _)
cipher_index(cs, name, i) ==
    IF i > Len(cs) THEN 0
    ELSE IF cs[i].name = name THEN i
    ELSE cipher_index(cs, name, i + 1)

\* The j at which the loop of line 66 finds impl, from j on; 0 if it meets
\* the terminator
RECURSIVE impl_index(_, _, _)
impl_index(impls, impl, j) ==
    IF impls[j].impl = NULL THEN 0
    ELSE IF impls[j].name = impl THEN j
    ELSE impl_index(impls, impl, j + 1)

\* fastd_cipher_config without lines 68-69: it binds what it is asked for
fastd_cipher_config_NoProbe(cs, cc, name, impl) ==
    LET i == cipher_index(cs, name, 1)
        j == IF i = 0 THEN 0 ELSE impl_index(cs[i].impls, impl, 1)
    IN IF i = 0 \/ j = 0 THEN [ ok |-> FALSE, cipher_conf |-> cc ]
       ELSE [ ok |-> TRUE,
              cipher_conf |-> [cc EXCEPT ![i] = cs[i].impls[j].impl] ]

\* lines 61-81: whether it succeeded and the cipher_conf it leaves
fastd_cipher_config(cs, cc, name, impl) ==
    LET i == cipher_index(cs, name, 1)
        j == IF i = 0 THEN 0 ELSE impl_index(cs[i].impls, impl, 1)
    IN IF i = 0 \/ j = 0 THEN [ ok |-> FALSE, cipher_conf |-> cc ]
       ELSE IF ~cipher_available(cs[i].impls[j].impl)
       THEN [ ok |-> FALSE, cipher_conf |-> cc ]
       ELSE [ ok |-> TRUE,
              cipher_conf |-> [cc EXCEPT ![i] = cs[i].impls[j].impl] ]

\* lines 83-96
fastd_cipher_info_get_by_name(cs, cc, name) ==
    LET i == cipher_index(cs, name, 1)
    IN IF i # 0 /\ cc[i] # NULL THEN cs[i].info ELSE NULL

\* The i at which the loop of line 100 finds info, from i on; 0 if it runs
\* to the end of the list
RECURSIVE info_index(_, _, _)
info_index(cs, info, i) ==
    IF i > Len(cs) THEN 0
    ELSE IF cs[i].info = info THEN i
    ELSE info_index(cs, info, i + 1)

\* lines 98-106
fastd_cipher_get(cs, cc, info) ==
    LET i == info_index(cs, info, 1)
    IN IF i # 0 THEN cc[i] ELSE NULL

----------------------------------------------------------------------------
(* The two daemons *)

ZeroNode ==
    [ handshake_key |-> ZeroKey, prev_handshake_key |-> ZeroKey,
      established |-> FALSE, old_session |-> ZeroSession, session |-> ZeroSession,
      handshake_task |-> FALSE, keepalives |-> <<>>,
      freed |-> {}, double_free |-> FALSE,
      leaked |-> 0,    \* receive buffers neither freed nor handed on
      refreshes |-> <<>> ]  \* sessions check_session_refresh scheduled a
                            \* handshake for, in order

\* What the last inbound nonce met: the receive state before it (before) and
\* when it came (at), whether the nonce had been accepted before (dup when it
\* is accepted again), and what the two checks said
NoRecv ==
    [ nonce |-> -1, valid |-> FALSE, ok |-> FALSE, dup |-> FALSE, fresh |-> FALSE,
      at |-> 0,
      before |-> [ receive_nonce |-> 0, receive_reorder_seen |-> {},
                   receive_last |-> 0 ] ]

\* What the last handler run was given and did: the handler (op) and its
\* daemon; for a handshake its type, the recipient handshake key it named, how
\* it ended and the pool entry used; for a data packet the sessions whose key
\* it was under (under) and to which its nonce was new (newer) on arrival, the
\* and those whose latest accepted nonce it repeats (latest), the
\* session that decrypted it and how often its buffer was freed and handed
\* up; for a run of establish the slot whose state the rollover frees and
\* the number of method states the run freed; the protocol_send calls and
\* the number of handshake messages sent
NoEv ==
    [ op |-> "none", node |-> 0, outcome |-> "", slot |-> "", via |-> "",
      freed |-> 0, handed |-> 0, sends |-> <<>>, nmsgs |-> 0,
      mtype |-> 0, rhk |-> <<"pt", 0>>, under |-> {}, newer |-> {},
      latest |-> {}, malformed |-> FALSE, identity |-> FALSE, badT |-> FALSE,
      ptype |-> -1 ]

SessionSlots == {"old_session", "session"}

\* pkt carries the tag of the valid session in slot: it is under its key
PktUnder(st, t, slot, pkt) ==
    /\ is_session_valid(t, st[slot])
    /\ pkt.key = st[slot].method_state.secret

\* and its nonce is of the inbound parity and above every nonce received
PktNewer(st, t, slot, pkt) ==
    /\ PktUnder(st, t, slot, pkt)
    /\ ParityOk(st[slot].method_state.common, pkt.nonce)
    /\ pkt.nonce > st[slot].method_state.common.receive_nonce

\* and its nonce is the one the session accepted last
PktLatest(st, t, slot, pkt) ==
    /\ PktUnder(st, t, slot, pkt)
    /\ pkt.nonce = st[slot].method_state.common.receive_nonce

RecvEv(st, n, t, pkt, r) ==
    [NoEv EXCEPT !.op = "recv", !.node = n, !.via = r.via,
                 !.freed = r.freed, !.handed = r.handed, !.sends = r.sends,
                 !.under = { slot \in SessionSlots : PktUnder(st, t, slot, pkt) },
                 !.newer = { slot \in SessionSlots : PktNewer(st, t, slot, pkt) },
                 !.latest = { slot \in SessionSlots : PktLatest(st, t, slot, pkt) }]

\* A datagram anyone can send: a data packet under no session's key
Forged == { [ to |-> n, key |-> <<"forged">>, nonce |-> 2, len |-> 1 ] : n \in Nodes }

SeqSet(s) == { s[i] : i \in 1..Len(s) }

\* Whether the sessions of st can take one more payload packet in the model
CanSend(st) ==
    \A s \in {st.old_session, st.session} :
        s.method_state # NULL => s.method_state.common.send_nonce <= MaxSendNonce

Init ==
    /\ now = 0
    /\ conf = [ reorder_count |-> ReorderCount ]
    /\ node = [ n \in Nodes |-> ZeroNode ]
    /\ net = {}
    /\ wire = {}
    /\ nkeys = [ n \in Nodes |-> 0 ]
    /\ nsess = [ n \in Nodes |-> 0 ]
    /\ estab = {}
    /\ ev = NoEv
    /\ common = fastd_method_common_init(0, TRUE, 0)
    /\ commonInitiator = TRUE
    /\ peerSend = 2
    /\ accepted = {}
    /\ lastRecv = NoRecv
    /\ CipherStart(BuiltCiphers)

\* A handshake task of the peer comes due (or the peer is not established and
\* is tried again): protocol_handshake_init
HandshakeInit(n) ==
    /\ ~node[n].established \/ node[n].handshake_task
    /\ NeedsNewKey(node[n], now) => nkeys[1] + nkeys[2] < MaxKeys
    /\ LET st == [node[n] EXCEPT !.handshake_task = FALSE]
           r == protocol_handshake_init(st, n, now, FreshScalar(n, nkeys[n]))
       IN /\ node' = [node EXCEPT ![n] = r.st]
          /\ net' = net \cup SeqSet(r.msgs)
          /\ nkeys' = IF NeedsNewKey(node[n], now)
                      THEN [nkeys EXCEPT ![n] = @ + 1] ELSE nkeys
          /\ ev' = [NoEv EXCEPT !.op = "init", !.node = n, !.nmsgs = Len(r.msgs)]
    /\ UNCHANGED <<now, wire, nsess, estab, commonVars, cipherVars>>

\* A handshake message arrives: protocol_handshake_handle
HandshakeHandle(n) ==
    \E m \in net, splay \in 0..key_refresh_splay :
        /\ m.to = n
        /\ NeedsNewKey(node[n], now) => nkeys[1] + nkeys[2] < MaxKeys
        /\ LET r == protocol_handshake_handle(node[n], n, now, m,
                        FreshScalar(n, nkeys[n]), <<n, nsess[n] + 1>>,
                        splay, TRUE)
           IN /\ r.est # {} => nsess[1] + nsess[2] < MaxSessions
              /\ node' = [node EXCEPT ![n] = r.st]
              /\ net' = net \cup SeqSet(r.msgs)
              /\ wire' = wire \cup SeqSet(r.pkts)
              /\ nsess' = IF r.est # {}
                          THEN [nsess EXCEPT ![n] = @ + 1] ELSE nsess
              /\ estab' = estab \cup r.est
              /\ ev' = [NoEv EXCEPT !.op = "handshake", !.node = n,
                            !.outcome = r.outcome, !.slot = r.slot,
                            !.sends = r.sends, !.nmsgs = Len(r.msgs),
                            !.mtype = m.type, !.rhk = m.recipient_hk.data]
        /\ nkeys' = IF NeedsNewKey(node[n], now)
                    THEN [nkeys EXCEPT ![n] = @ + 1] ELSE nkeys
        /\ UNCHANGED <<now, commonVars, cipherVars>>

\* A data packet arrives: protocol_handle_recv
DataRecv(n) ==
    \E pkt \in wire :
        /\ pkt.to = n
        /\ \E r \in protocol_handle_recv(node[n], n, now, pkt) :
              /\ node' = [node EXCEPT ![n] = r.st]
              /\ wire' = wire \cup SeqSet(r.pkts)
              /\ ev' = RecvEv(node[n], n, now, pkt, r)
        /\ UNCHANGED <<now, net, nkeys, nsess, estab, commonVars, cipherVars>>

\* Payload for the established peer: protocol_send
DataSend(n) ==
    /\ node[n].established
    /\ CanSend(node[n])
    /\ \E enc_ok \in BOOLEAN :
          LET r == protocol_send(node[n], n, now, 1, enc_ok)
          IN /\ node' = [node EXCEPT ![n] = r.st]
             /\ wire' = wire \cup SeqSet(r.pkts)
             /\ ev' = [NoEv EXCEPT !.op = "send", !.node = n, !.sends = r.sends]
    /\ UNCHANGED <<now, net, nkeys, nsess, estab, commonVars, cipherVars>>

Tick ==
    /\ now + TickStep <= MaxClock
    /\ now' = now + TickStep
    /\ ev' = [NoEv EXCEPT !.op = "tick"]
    /\ UNCHANGED <<node, net, wire, nkeys, nsess, estab, commonVars, cipherVars>>

Next ==
    \/ \E n \in Nodes : HandshakeInit(n)
    \/ \E n \in Nodes : HandshakeHandle(n)
    \/ \E n \in Nodes : DataRecv(n)
    \/ \E n \in Nodes : DataSend(n)
    \/ Tick

Spec == Init /\ [][Next]_vars

----------------------------------------------------------------------------
(* One peer's session pair: daemon 1 with any run of establish the         *)
(* handshake handlers can make, any inbound packet, sends and the clock    *)

\* The keys and sigma of the k-th handshake as establish is handed them
PeerHandshake(k, initiator) ==
    [ A |-> Point(k), B |-> Point(k), sigma |-> Point(k),
      X |-> IF initiator THEN public_key(1) ELSE peer_public_key(1),
      Y |-> IF initiator THEN peer_public_key(1) ELSE public_key(1) ]

\* Inbound packets: any nonce and length under the secret of any session
\* established so far, and one under no session's key
PeerPackets ==
    { [ to |-> 1, key |-> e.secret, nonce |-> nonce, len |-> len ] :
          e \in estab, nonce \in 0..MaxPktNonce, len \in 0..1 }
    \cup { p \in Forged : p.to = 1 }

PeerInit == Init

\* The slot whose state lines 310-316 free
RolledSlot(st, t) ==
    IF is_session_valid(t, st.session) /\ ~is_session_valid(t, st.old_session)
    THEN "old_session" ELSE "session"

\* finish_handshake or handle_finish_handshake gets as far as establish, at
\* most max times in all
EstablishUpTo(max) ==
    \E initiator \in BOOLEAN, splay \in 0..key_refresh_splay,
       claim_ok \in BOOLEAN :
        /\ nsess[1] < max
        /\ LET h == PeerHandshake(nsess[1] + 1, initiator)
               r == establish(node[1], 1, now, initiator, h.A, h.B, h.X, h.Y,
                              h.sigma, <<1, nsess[1] + 1>>, splay, claim_ok)
           IN /\ node' = [node EXCEPT ![1] = r.st]
              /\ estab' = estab \cup
                     { [ node |-> 1, hk |-> h.A, peer_hk |-> h.B,
                         sigma |-> h.sigma, initiator |-> r.inits[1].initiator,
                         secret |-> r.inits[1].secret ] }
              /\ ev' = [NoEv EXCEPT !.op = "establish", !.node = 1,
                            !.outcome = IF claim_ok THEN "established"
                                        ELSE "reset",
                            !.slot = RolledSlot(node[1], now),
                            !.freed = Cardinality(r.st.freed \ node[1].freed),
                            !.sends = r.sends]
        /\ nsess' = [nsess EXCEPT ![1] = @ + 1]
        /\ UNCHANGED <<now, net, wire, nkeys, commonVars, cipherVars>>

PeerEstablish == EstablishUpTo(MaxEstablish)

\* One of pkts arrives
RecvOf(pkts) ==
    \E pkt \in pkts :
    \E r \in protocol_handle_recv(node[1], 1, now, pkt) :
        /\ node' = [node EXCEPT ![1] = r.st]
        /\ ev' = RecvEv(node[1], 1, now, pkt, r)
        /\ UNCHANGED <<now, net, wire, nkeys, nsess, estab, commonVars, cipherVars>>

PeerRecv == RecvOf(PeerPackets)

PeerSend ==
    /\ CanSend(node[1])
    /\ \E enc_ok \in BOOLEAN :
          LET r == protocol_send(node[1], 1, now, 1, enc_ok)
          IN /\ node' = [node EXCEPT ![1] = r.st]
             /\ ev' = [NoEv EXCEPT !.op = "send", !.node = 1, !.sends = r.sends]
    /\ UNCHANGED <<now, net, wire, nkeys, nsess, estab, commonVars, cipherVars>>

PeerTick ==
    /\ now + TickStep <= MaxPeerClock
    /\ now' = now + TickStep
    /\ ev' = [NoEv EXCEPT !.op = "tick"]
    /\ UNCHANGED <<node, net, wire, nkeys, nsess, estab, commonVars, cipherVars>>

\* fastd_packet_type
PACKET_UNKNOWN == 0
PACKET_HANDSHAKE == 1
PACKET_DATA == 2

\* First bytes a datagram can have
PacketTypes == {PACKET_UNKNOWN, PACKET_HANDSHAKE, PACKET_DATA, 127}

\* The dispatch that leaks the buffer of a datagram of unknown type, as
\* before v21
packet_dispatch_Leak(type) ==
    IF type = PACKET_HANDSHAKE THEN [ to |-> "handshake", freed |-> 0 ]
    ELSE IF type = PACKET_DATA THEN [ to |-> "data", freed |-> 0 ]
    ELSE [ to |-> "drop", freed |-> 0 ]

\* The outermost dispatch on the first byte of a received datagram: a
\* handshake goes to the handshake handler and a data packet to the
\* session's method, which own the buffer from then on; a datagram of any
\* other type is dropped and its buffer freed
packet_dispatch(type) ==
    IF type = PACKET_HANDSHAKE THEN [ to |-> "handshake", freed |-> 0 ]
    ELSE IF type = PACKET_DATA THEN [ to |-> "data", freed |-> 0 ]
    ELSE [ to |-> "drop", freed |-> 1 ]

\* A datagram that is neither a handshake nor a data packet arrives in a
\* receive buffer
PeerUnknown ==
    \E type \in PacketTypes \ {PACKET_HANDSHAKE, PACKET_DATA} :
        LET d == packet_dispatch(type)
        IN /\ node' = [node EXCEPT ![1].leaked = @ + 1 - d.freed]
           /\ ev' = [NoEv EXCEPT !.op = "dispatch", !.node = 1,
                         !.ptype = type, !.outcome = d.to, !.freed = d.freed]
           /\ UNCHANGED <<now, net, wire, nkeys, nsess, estab, commonVars, cipherVars>>

PeerNext == PeerEstablish \/ PeerRecv \/ PeerSend \/ PeerTick \/ PeerUnknown

SpecPeer == PeerInit /\ [][PeerNext]_vars

----------------------------------------------------------------------------
(* One peer's session pair over three runs of establish, with only the     *)
(* first packet of each direction                                          *)

MaxRollEstablish == 3   \* runs of establish in all

RollEstablish == EstablishUpTo(MaxRollEstablish)

\* The first packet a session can receive, under any session's secret
RollRecv ==
    RecvOf({ p \in PeerPackets : p.nonce \in {2, 3} /\ p.len = 1 })

RollNext == RollEstablish \/ RollRecv \/ PeerSend \/ PeerTick

SpecRollover == PeerInit /\ [][RollNext]_vars

----------------------------------------------------------------------------
(* One daemon's handshake handler: daemon 1 with any handshake message, of *)
(* its peer or of anyone else, well formed or not                          *)

MaxHsKeys == 2       \* handshake keys daemon 1 generates in all
MaxHsEstablish == 1  \* runs of establish in all

\* A record of the wrong length
ShortRecord(data) == [ length |-> 31, data |-> data ]

\* A tag that verifies under no key, and a key of no configured peer
BadTag == <<"hmac", "bad">>
StrangerKey == Point(7)

\* The handshake key whose secret is the scalar y
KeyOf(y) == [ preferred_till |-> 0, valid_till |-> 0, secret_key |-> y,
              public_key |-> ecc_25519_scalarmult_base(y) ]

\* The message of each type that daemon 2 sends daemon 1 when its handshake
\* key is KeyOf(y) and daemon 1's is rhk: Type 1 as protocol_handshake_init
\* builds it, Type 2 as respond_handshake does (lines 272-289) and Type 3 as
\* finish_handshake does (lines 398-409)
PeerMessage(type, y, rhk) ==
    LET hkey == KeyOf(y)
        rsigma == ResponderSigma(2, hkey, rhk)
        rshared == SessionHash(hkey.public_key, rhk, public_key(2),
                               public_key(1), rsigma)
        isigma == InitiatorSigma(2, hkey, rhk)
        ishared == SessionHash(rhk, hkey.public_key, public_key(1),
                               public_key(2), isigma)
    IN IF type = 1
       THEN Handshake(1, 1, Record(public_key(2)), Record(public_key(1)),
                      Record(hkey.public_key), NoRecord, NoRecord)
       ELSE Handshake(1, type, Record(public_key(2)), Record(public_key(1)),
                      Record(hkey.public_key), Record(rhk),
                      Record(Hmac(public_key(2), hkey.public_key,
                                  IF type = 2 THEN rshared ELSE ishared)))

\* m with one of its parts spoilt
Spoilt(m) ==
    { m,
      [m EXCEPT !.known = FALSE],
      [m EXCEPT !.type = 0],
      [m EXCEPT !.type = 4],
      [m EXCEPT !.sender_key = NoRecord],
      [m EXCEPT !.sender_key = ShortRecord(@.data)],
      [m EXCEPT !.sender_key = Record(StrangerKey)],
      [m EXCEPT !.recipient_key = NoRecord],
      [m EXCEPT !.recipient_key = ShortRecord(@.data)],
      [m EXCEPT !.recipient_key = Record(StrangerKey)],
      [m EXCEPT !.sender_hk = NoRecord],
      [m EXCEPT !.sender_hk = ShortRecord(@.data)],
      [m EXCEPT !.recipient_hk = NoRecord],
      [m EXCEPT !.recipient_hk = ShortRecord(@.data)],
      [m EXCEPT !.T = NoRecord],
      [m EXCEPT !.T = ShortRecord(@.data)],
      [m EXCEPT !.T = Record(BadTag)] }

PeerScalar == 4   \* the scalar of the handshake key the spoilt messages carry

\* Scalars of the sender's handshake keys: PeerScalar, and those for which
\* daemon 1 computes the identity as sigma under its first and second key
PeerScalars == {1, PeerScalar, 5}

\* The handshake messages that can reach daemon n = 1 in state st: for every
\* pool entry of st (or a key st does not hold) the peer's message of each
\* type, under every handshake key of the sender, and under one of them with
\* each of its parts spoilt
HsMessages(st) ==
    LET named == { st.handshake_key.public_key,
                   st.prev_handshake_key.public_key, StrangerKey }
    IN { PeerMessage(type, y, rhk) :
             type \in 1..3, y \in PeerScalars, rhk \in named }
       \cup UNION { Spoilt(PeerMessage(type, PeerScalar, rhk)) :
                    type \in 1..3, rhk \in named }

\* The message is malformed: a mandatory record is missing or not 32 bytes
\* long, a recipient key of 32 bytes is not the local public key, the type is
\* none of 1, 2, 3, or the sender key is no configured peer's
Malformed(n, m) ==
    \/ m.sender_key.length # 32
    \/ m.sender_hk.length # 32
    \/ m.type > 1 /\ ( \/ m.recipient_key.length # 32
                       \/ m.recipient_hk.length # 32
                       \/ m.T.length # 32 )
    \/ m.recipient_key.length = 32 /\ m.recipient_key.data # public_key(n)
    \/ m.type \notin {1, 2, 3}
    \/ m.sender_key.data # peer_public_key(n)

\* The sigma the handler computes for m with the pool of st is the identity
SigmaIsIdentity(st, n, t, m) ==
    LET slot == KeySlot(st, t, m.recipient_hk.data)
    IN /\ ~Malformed(n, m) /\ m.known
       /\ m.type = 1 \/ slot # "none"
       /\ ecc_25519_is_identity(
              IF m.type = 1
              THEN ResponderSigma(n, st.handshake_key, m.sender_hk.data)
              ELSE IF m.type = 2
              THEN InitiatorSigma(n, st[slot], m.sender_hk.data)
              ELSE ResponderSigma(n, st[slot], m.sender_hk.data))

\* Any handshake message arrives: protocol_handshake_handle
HsHandle ==
    \E m \in HsMessages(node[1]), splay \in 0..key_refresh_splay :
        /\ NeedsNewKey(node[1], now) => nkeys[1] < MaxHsKeys
        /\ LET r == protocol_handshake_handle(node[1], 1, now, m,
                        FreshScalar(1, nkeys[1]), <<1, nsess[1] + 1>>,
                        splay, TRUE)
           IN /\ r.est # {} => nsess[1] < MaxHsEstablish
              /\ node' = [node EXCEPT ![1] = r.st]
              /\ nsess' = IF r.est # {}
                          THEN [nsess EXCEPT ![1] = @ + 1] ELSE nsess
              /\ estab' = estab \cup r.est
              /\ ev' = [NoEv EXCEPT !.op = "handshake", !.node = 1,
                            !.outcome = r.outcome, !.slot = r.slot,
                            !.sends = r.sends, !.nmsgs = Len(r.msgs),
                            !.mtype = m.type,
                            !.malformed = Malformed(1, m),
                            !.identity = SigmaIsIdentity(r.st, 1, now, m),
                            !.badT = (m.T.data = BadTag)]
        /\ nkeys' = IF NeedsNewKey(node[1], now)
                    THEN [nkeys EXCEPT ![1] = @ + 1] ELSE nkeys
        /\ UNCHANGED <<now, net, wire, commonVars, cipherVars>>

\* protocol_handshake_init of daemon 1, while it has generated fewer than max
\* handshake keys
InitUpTo(max) ==
    /\ NeedsNewKey(node[1], now) => nkeys[1] < max
    /\ LET r == protocol_handshake_init(node[1], 1, now, FreshScalar(1, nkeys[1]))
       IN /\ node' = [node EXCEPT ![1] = r.st]
          /\ ev' = [NoEv EXCEPT !.op = "init", !.node = 1, !.nmsgs = Len(r.msgs)]
    /\ nkeys' = IF NeedsNewKey(node[1], now)
                THEN [nkeys EXCEPT ![1] = @ + 1] ELSE nkeys
    /\ UNCHANGED <<now, net, wire, nsess, estab, commonVars, cipherVars>>

HsInit == InitUpTo(MaxHsKeys)

HsNext == HsHandle \/ HsInit \/ Tick

SpecHandshake == Init /\ [][HsNext]_vars

----------------------------------------------------------------------------
(* The handshake-key pool of one daemon under a clock of 5 s steps, with a *)
(* handshake started at any of them                                        *)

MaxPoolKeys == 4     \* handshake keys generated in all
PoolStep == 5        \* seconds the clock advances at once
MaxPoolClock == 60   \* the clock stops here

PoolMaintain == InitUpTo(MaxPoolKeys)

PoolTick ==
    /\ now + PoolStep <= MaxPoolClock
    /\ now' = now + PoolStep
    /\ ev' = [NoEv EXCEPT !.op = "tick"]
    /\ UNCHANGED <<node, net, wire, nkeys, nsess, estab, commonVars, cipherVars>>

PoolNext == PoolMaintain \/ PoolTick

SpecPool == Init /\ [][PoolNext]_vars

----------------------------------------------------------------------------
(* The record layer alone: one session, any inbound nonce *)

CommonInit ==
    /\ now = 0
    /\ conf = [ reorder_count |-> ReorderCount ]
    /\ \E initiator \in BOOLEAN, splay \in 0..key_refresh_splay :
          /\ commonInitiator = initiator
          /\ common = fastd_method_common_init(0, initiator, splay)
          /\ peerSend = fastd_method_common_init(0, ~initiator, splay).send_nonce
    /\ accepted = {}
    /\ lastRecv = NoRecv
    /\ CipherStart(BuiltCiphers)
    /\ node = [ n \in Nodes |-> ZeroNode ]
    /\ net = {}
    /\ wire = {}
    /\ nkeys = [ n \in Nodes |-> 0 ]
    /\ nsess = [ n \in Nodes |-> 0 ]
    /\ estab = {}
    /\ ev = NoEv

RecvNote(t, session, acc, nonce, r) ==
    [ nonce |-> nonce,
      valid |-> fastd_method_is_nonce_valid(t, session, nonce),
      ok |-> r.ok,
      dup |-> r.ok /\ nonce \in acc,
      fresh |-> nonce \notin acc,
      at |-> t,
      before |-> [ receive_nonce |-> session.receive_nonce,
                   receive_reorder_seen |-> session.receive_reorder_seen,
                   receive_last |-> session.receive_last ] ]

CommonRecv ==
    \E nonce \in 0..MaxNonce :
    \E r \in NonceResults(now, common, nonce) :
        /\ common' = r.session
        /\ accepted' = IF r.ok THEN accepted \cup {nonce} ELSE accepted
        /\ lastRecv' = RecvNote(now, common, accepted, nonce, r)
        /\ UNCHANGED <<now, conf, commonInitiator, peerSend, protoVars, cipherVars>>

CommonSend ==
    /\ common.send_nonce + 2 <= MaxNonce
    /\ common' = IncrementNonce(common)
    /\ UNCHANGED <<now, conf, commonInitiator, peerSend, accepted, lastRecv,
                   protoVars, cipherVars>>

CommonPeerSend ==
    /\ peerSend + 2 <= MaxNonce
    /\ peerSend' = peerSend + 2
    /\ UNCHANGED <<now, conf, common, commonInitiator, accepted, lastRecv,
                   protoVars, cipherVars>>

CommonTick ==
    /\ now < MaxTime
    /\ now' = now + 1
    /\ UNCHANGED <<conf, common, commonInitiator, peerSend, accepted, lastRecv,
                   protoVars, cipherVars>>

CommonNext == CommonRecv \/ CommonSend \/ CommonPeerSend \/ CommonTick

SpecCommon == CommonInit /\ [][CommonNext]_vars

----------------------------------------------------------------------------
(* The reorder window: one session under a small and under the widest      *)
(* reorder_count, with inbound nonces that lie up to 65 positions apart    *)

WideReorderCount == 64   \* receive_reorder_seen has this many bits
MaxWindowPackets == 3    \* nonces accepted in all

\* Nonces of an initiator's inbound direction (even) and two of the other
\* parity: neighbours, and nonces 32, 33, 63, 64 and 65 positions apart
WindowNonces == {10, 11, 12, 14, 16, 74, 76, 77, 138, 140}

WindowInit ==
    /\ now = 0
    /\ conf \in { [ reorder_count |-> c ] : c \in {ReorderCount, WideReorderCount} }
    /\ commonInitiator = TRUE
    /\ common = fastd_method_common_init(0, TRUE, 0)
    /\ peerSend = 2
    /\ accepted = {}
    /\ lastRecv = NoRecv
    /\ CipherStart(BuiltCiphers)
    /\ node = [ n \in Nodes |-> ZeroNode ]
    /\ net = {}
    /\ wire = {}
    /\ nkeys = [ n \in Nodes |-> 0 ]
    /\ nsess = [ n \in Nodes |-> 0 ]
    /\ estab = {}
    /\ ev = NoEv

WindowRecv ==
    \E nonce \in WindowNonces :
    \E r \in NonceResults(now, common, nonce) :
        /\ r.ok => (nonce \in accepted \/ Cardinality(accepted) < MaxWindowPackets)
        /\ common' = r.session
        /\ accepted' = IF r.ok THEN accepted \cup {nonce} ELSE accepted
        /\ lastRecv' = RecvNote(now, common, accepted, nonce, r)
        /\ UNCHANGED <<now, conf, commonInitiator, peerSend, protoVars, cipherVars>>

WindowTick ==
    /\ now < MaxTime
    /\ now' = now + 1
    /\ UNCHANGED <<conf, common, commonInitiator, peerSend, accepted, lastRecv,
                   protoVars, cipherVars>>

WindowNext == WindowRecv \/ WindowTick

SpecWindow == WindowInit /\ [][WindowNext]_vars

----------------------------------------------------------------------------
(* Claims about one peer's session pair *)

\* C2: whichever way protocol_handle_recv goes (peer not established, no
\* valid current session, decryption failing on both sessions, or a packet
\* decrypted), the inbound buffer is disposed of exactly once: freed or handed
\* to fastd_handle_receive, never both and never neither.
C2_BufferDisposedOnce == ev.op = "recv" => ev.freed + ev.handed = 1

\* C2 witness: an established peer with two valid sessions has freed a packet
\* that neither session decrypted
C2_Witness ==
    /\ ev.op = "recv" /\ ev.via = "none" /\ ev.freed = 1 /\ ev.handed = 0
    /\ node[1].established
    /\ is_session_valid(now, node[1].session)
    /\ is_session_valid(now, node[1].old_session)

\* C4: every protocol_send, the one inside protocol_handle_recv included,
\* encrypts with the previous session only if the local side is the initiator
\* of the current session and the current session's handshakes_cleaned is
\* still false.
C4_PreviousOnlyBeforeCleaned ==
    \A i \in 1..Len(ev.sends) :
        ev.sends[i].used = "old_session"
            => ev.sends[i].initiator /\ ~ev.sends[i].cleaned

\* C5: a protocol_handle_recv that decrypts with the current session leaves
\* the previous session's method state freed and cleared; no session slot ever
\* holds a freed method state, so no later packet is decrypted against it.
C5_PreviousFreedOnCurrentDecrypt ==
    /\ [][\A n \in Nodes :
            (ev'.op = "recv" /\ ev'.node = n /\ ev'.via = "session") =>
                /\ node'[n].old_session.method_state = NULL
                /\ node[n].old_session.method_state # NULL =>
                     node[n].old_session.method_state.id \in node'[n].freed]_vars
    /\ [](\A n \in Nodes : \A slot \in SessionSlots :
            node[n][slot].method_state # NULL =>
                node[n][slot].method_state.id \notin node[n].freed)
    /\ []((ev.op = "recv" /\ ev.via = "old_session") =>
            node[ev.node].old_session.method_state # NULL)

\* C5 witness: at time 0 the second session has decrypted a packet and the
\* first, which establish had moved to the previous slot, is freed
C5_Witness ==
    /\ ev.op = "recv" /\ ev.via = "session" /\ now = 0
    /\ nsess[1] = 2
    /\ node[1].session.method_state # NULL
    /\ node[1].session.method_state.id = <<1, 2>>
    /\ node[1].freed = { <<1, 1>> }
    /\ node[1].old_session.method_state = NULL

C7_BothSessionsAccepted ==
    ev.op = "recv" =>
        /\ "old_session" \in ev.newer => ev.via = "old_session"
        /\ ("session" \in ev.newer /\ "old_session" \notin ev.under)
               => ev.via = "session"

\* C7 witness: the previous session has decrypted a packet after the rekey
C7_Witness ==
    /\ ev.op = "recv" /\ ev.via = "old_session" /\ ev.handed = 1
    /\ is_session_valid(now, node[1].session)
    /\ node[1].session.method_state.secret
           # node[1].old_session.method_state.secret

\* C13: a packet no session accepts (the nonce-validity or the reorder check
\* rejects it: duplicate, wrong parity, out of window) is not handed up and
\* leaves both sessions, their receive_nonce, receive_reorder_seen and
\* receive_last included, as they were; a packet that repeats the nonce a
\* session accepted last is not accepted by that session.
C13_RejectedLeavesState ==
    /\ [][\A n \in Nodes :
            (ev'.op = "recv" /\ ev'.node = n /\ ev'.via = "none") =>
                /\ ev'.handed = 0
                /\ node'[n].session = node[n].session
                /\ node'[n].old_session = node[n].old_session]_vars
    /\ [](ev.op = "recv" => ev.via \notin ev.latest)

\* C13 witness: the current session has dropped a replay of the packet it
\* accepted last, and holds a packet accepted out of order in its bitmap
C13_Witness ==
    /\ ev.op = "recv" /\ ev.via = "none" /\ ev.latest = {"session"}
    /\ node[1].session.method_state.common.receive_nonce > 1
    /\ node[1].session.method_state.common.receive_reorder_seen # {}

----------------------------------------------------------------------------
(* Claims about the handshake *)

\* each side's fresh session decrypts the first packet the other encrypts
MutualDecrypt(initiator_secret, responder_secret) ==
    LET mi == session_init(<<0, 0>>, initiator_secret, TRUE, now, 0)
        mr == session_init(<<0, 0>>, responder_secret, FALSE, now, 0)
    IN /\ \A r \in method_decrypt(now, mr, method_encrypt(mi, 2, 1)) : r.ok
       /\ \A r \in method_decrypt(now, mi, method_encrypt(mr, 1, 1)) : r.ok

\* e1 and e2 are the two ends of one handshake: the initiator's and the
\* responder's run of establish over the same handshake keys
SameHandshake(e1, e2) ==
    /\ e1.node # e2.node
    /\ e1.initiator /\ ~e2.initiator
    /\ e1.hk = e2.peer_hk /\ e1.peer_hk = e2.hk

\* C3: the initiator and the responder of one handshake compute the same
\* sigma and give session_init the same secret, the initiator flag set on
\* exactly one side, and each side's session decrypts what the other encrypts.
C3_SharedSecret ==
    \A e1 \in estab, e2 \in estab :
        /\ SameHandshake(e1, e2) =>
              /\ e1.sigma = e2.sigma
              /\ e1.secret = e2.secret
              /\ MutualDecrypt(e1.secret, e2.secret)
        /\ (e1.node # e2.node /\ e1.secret = e2.secret)
              => e1.initiator # e2.initiator

\* C3 witness: both ends of one handshake have run establish
C3_Witness == \E e1 \in estab, e2 \in estab : SameHandshake(e1, e2)

KeyMatches(key, rhk) == now < key.valid_till /\ key.public_key = rhk

\* C9: a Type 2 or Type 3 handshake establishes only with the pool entry whose
\* public key is the received recipient handshake key and which is valid
\* (now < valid_till), the current entry before the previous one; with such
\* an entry it is not dropped as unexpected; with none it is dropped: no
\* reply, no packet, no change to the sessions.
C9_HandshakeKeySelection ==
    /\ []((ev.op = "handshake" /\ ev.mtype \in {2, 3}) =>
            LET st == node[ev.node]
                cur == KeyMatches(st.handshake_key, ev.rhk)
                prev == KeyMatches(st.prev_handshake_key, ev.rhk)
            IN /\ ev.outcome = "established" =>
                    /\ ev.slot = "handshake_key" => cur
                    /\ ev.slot = "prev_handshake_key" => ~cur /\ prev
                    /\ ev.slot \in {"handshake_key", "prev_handshake_key"}
               /\ (cur \/ prev) => ev.outcome # "unexpected handshake key")
    /\ [][\A n \in Nodes :
            ( /\ ev'.op = "handshake" /\ ev'.node = n /\ ev'.mtype \in {2, 3}
              /\ ~KeyMatches(node'[n].handshake_key, ev'.rhk)
              /\ ~KeyMatches(node'[n].prev_handshake_key, ev'.rhk) ) =>
                /\ ev'.outcome # "established"
                /\ ev'.nmsgs = 0 /\ ev'.sends = <<>>
                /\ net' = net /\ wire' = wire /\ estab' = estab
                /\ node'[n].session = node[n].session
                /\ node'[n].old_session = node[n].old_session
                /\ node'[n].established = node[n].established]_vars

\* C9 witness: a Type 3 that names the key rotated to the previous slot has
\* established the session
C9_Witness ==
    /\ ev.op = "handshake" /\ ev.mtype = 3 /\ ev.outcome = "established"
    /\ ev.slot = "prev_handshake_key"
    /\ now >= node[ev.node].prev_handshake_key.preferred_till

\* m is the initiator and n the responder of the only handshake either has
\* finished
CleanPair(m, n) ==
    /\ node[m].established /\ node[n].established
    /\ is_session_valid(now, node[m].session)
    /\ is_session_valid(now, node[n].session)
    /\ node[m].old_session.method_state = NULL
    /\ node[n].old_session.method_state = NULL
    /\ node[m].freed = {} /\ node[n].freed = {}
    /\ session_is_initiator(node[m].session.method_state)
    /\ ~session_is_initiator(node[n].session.method_state)
    /\ node[m].session.method_state.secret = node[n].session.method_state.secret

\* C10: handling Type 2 leaves the initiator established with Type 3 sent;
\* handling Type 3 leaves the responder established with no handshake message
\* and exactly one zero-length packet sent, on the new session; a side that
\* had no session then has a valid current and no valid previous session; and
\* a payload the initiator sends next is handed up at the responder.
C10_CleanHandshake ==
    /\ []((ev.op = "handshake" /\ ev.outcome = "established") =>
            LET st == node[ev.node] IN
            /\ st.established
            /\ ev.mtype = 2 =>
                 /\ session_is_initiator(st.session.method_state)
                 /\ ev.nmsgs = 1 /\ ev.sends = <<>>
            /\ ev.mtype = 3 =>
                 /\ ~session_is_initiator(st.session.method_state)
                 /\ ev.nmsgs = 0 /\ Len(ev.sends) = 1
                 /\ ev.sends[1].used = "session" /\ ev.sends[1].len = 0)
    /\ [][\A n \in Nodes :
            ( /\ ev'.op = "handshake" /\ ev'.node = n
              /\ ev'.outcome = "established"
              /\ node[n].session.method_state = NULL
              /\ node[n].old_session.method_state = NULL ) =>
                /\ is_session_valid(now, node'[n].session)
                /\ ~is_session_valid(now, node'[n].old_session)]_vars
    /\ [](\A n \in Nodes :
            CleanPair(Other(n), n) =>
                LET s == protocol_send(node[Other(n)], Other(n), now, 1, TRUE)
                IN /\ Len(s.pkts) = 1
                   /\ \A r \in protocol_handle_recv(node[n], n, now, s.pkts[1]) :
                         r.handed = 1 /\ r.freed = 0 /\ r.via = "session")

\* C10 witness: after the one handshake the responder has handed up a payload
\* of the initiator
C10_Witness ==
    /\ ev.op = "recv" /\ ev.via = "session" /\ ev.handed = 1
    /\ CleanPair(Other(ev.node), ev.node)
    /\ nsess = [ n \in Nodes |-> 1 ]

\* The handler run has left the sessions of daemon n, its established flag
\* and the log of establish as they were, and has sent nothing
HandlerInert(n) ==
    /\ ev'.nmsgs = 0 /\ ev'.sends = <<>>
    /\ net' = net /\ wire' = wire /\ estab' = estab
    /\ node'[n].session = node[n].session
    /\ node'[n].old_session = node[n].old_session
    /\ node'[n].established = node[n].established
    /\ node'[n].freed = node[n].freed

\* C14 as claimed: when the verification of T fails in a Type 2 or Type 3
\* handshake, handling the message changes no session state and leaves the
\* current and the previous handshake key, timestamps included, as they were
\* before the message was handled.
C14_BadTagChangesNothing ==
    [][\A n \in Nodes :
        ( /\ ev'.op = "handshake" /\ ev'.node = n
          /\ ev'.mtype \in {2, 3} /\ ev'.outcome = "invalid" ) =>
            /\ HandlerInert(n)
            /\ node'[n].handshake_key = node[n].handshake_key
            /\ node'[n].prev_handshake_key = node[n].prev_handshake_key]_vars

\* C14 amended: a Type 2 or Type 3 handshake whose T does not verify is
\* dropped without a reply and changes no session state; the pool is as the
\* maintenance step at the start of the handler leaves it: untouched while
\* the current key is preferred, otherwise the current key has become the
\* previous one and a new current key is preferred for 15 and valid for 30
\* seconds from now.
C14_BadTagOnlyMaintains ==
    [][\A n \in Nodes :
        ( /\ ev'.op = "handshake" /\ ev'.node = n
          /\ ev'.mtype \in {2, 3} /\ ev'.badT ) =>
            /\ HandlerInert(n)
            /\ ev'.outcome # "established"
            /\ IF is_handshake_key_preferred(now, node[n].handshake_key)
               THEN /\ node'[n].handshake_key = node[n].handshake_key
                    /\ node'[n].prev_handshake_key = node[n].prev_handshake_key
               ELSE /\ node'[n].prev_handshake_key = node[n].handshake_key
                    /\ node'[n].handshake_key # node[n].handshake_key
                    /\ node'[n].handshake_key.preferred_till = now + 15
                    /\ node'[n].handshake_key.valid_till = now + 30]_vars

\* C14 witness: the verification of T has failed for a Type 2 that names the
\* key the same handler run had just rotated to the previous slot, at an
\* established peer
C14_Witness ==
    /\ ev.op = "handshake" /\ ev.mtype = 2 /\ ev.badT /\ ev.outcome = "invalid"
    /\ ev.slot = "prev_handshake_key"
    /\ node[1].established
    /\ node[1].handshake_key.preferred_till = now + 15

\* C15: a handshake message that is malformed, or for which the handler
\* computes the identity as sigma, produces no outgoing message and leaves
\* the peer's session pair and established flag unchanged.
C15_MalformedDropped ==
    [][\A n \in Nodes :
        ( /\ ev'.op = "handshake" /\ ev'.node = n
          /\ ev'.malformed \/ ev'.identity ) => HandlerInert(n)]_vars

\* C15 witness: at an established peer a well-formed Type 1 whose sigma is
\* the identity has been dropped
C15_Witness ==
    /\ ev.op = "handshake" /\ ev.mtype = 1 /\ ev.identity /\ ~ev.malformed
    /\ ev.outcome = "identity" /\ ev.nmsgs = 0
    /\ node[1].established

\* C16: a received datagram whose packet-type byte is neither handshake nor
\* data is dropped and its buffer is freed: it reaches no handler and changes
\* no session, and after any number of such datagrams no receive buffer is
\* outstanding.
C16_UnknownTypeFreed ==
    /\ [](\A n \in Nodes : node[n].leaked = 0)
    /\ [][ev'.op = "dispatch" =>
            /\ ev'.ptype \notin {PACKET_HANDSHAKE, PACKET_DATA}
            /\ ev'.outcome = "drop" /\ ev'.freed = 1 /\ ev'.handed = 0
            /\ ev'.sends = <<>> /\ ev'.nmsgs = 0
            /\ node' = node]_vars

\* C16 witness: a datagram with first byte 0x7F has been dropped at an
\* established peer
C16_Witness ==
    /\ ev.op = "dispatch" /\ ev.ptype = 127 /\ ev.freed = 1
    /\ node[1].established /\ node[1].leaked = 0

----------------------------------------------------------------------------
(* The cipher registry alone: any build's list of ciphers, on any platform *)

\* Sequences of at most MaxImpls probes
ProbeLists == UNION { [ 1..k -> Probes ] : k \in 0..MaxImpls }

\* Names asked for: those of the list and one that is not in it
AskedCiphers == { CipherNames[i] : i \in 1..Len(CipherNames) } \cup {"unknown"}
AskedImpls == { <<"impl", j>> : j \in 1..MaxImpls + 1 }

CipherInit ==
    /\ now = 0
    /\ conf = [ reorder_count |-> ReorderCount ]
    /\ common = fastd_method_common_init(0, TRUE, 0)
    /\ commonInitiator = TRUE
    /\ peerSend = 2
    /\ accepted = {}
    /\ lastRecv = NoRecv
    /\ node = [ n \in Nodes |-> ZeroNode ]
    /\ net = {}
    /\ wire = {}
    /\ nkeys = [ n \in Nodes |-> 0 ]
    /\ nsess = [ n \in Nodes |-> 0 ]
    /\ estab = {}
    /\ ev = NoEv
    /\ \E p1 \in ProbeLists, p2 \in ProbeLists : CipherStart(Ciphers(<<p1, p2>>))

\* fastd_cipher_init
CipherSetup ==
    /\ cipher_conf' = fastd_cipher_init(ciphers)
    /\ cipherEv' = [NoCipherEv EXCEPT !.op = "init"]
    /\ UNCHANGED <<now, ciphers, commonVars, protoVars>>

\* fastd_cipher_config, as the configuration asks for an implementation
CipherConfig ==
    \E name \in AskedCiphers, impl \in AskedImpls :
        LET r == fastd_cipher_config(ciphers, cipher_conf, name, impl)
        IN /\ cipher_conf' = r.cipher_conf
           /\ cipherEv' = [ op |-> "config", name |-> name, impl |-> impl,
                            result |-> r.ok ]
           /\ UNCHANGED <<now, ciphers, commonVars, protoVars>>

\* fastd_cipher_info_get_by_name
CipherLookup ==
    \E name \in AskedCiphers :
        /\ cipherEv' = [ op |-> "lookup", name |-> name, impl |-> NULL,
                         result |-> fastd_cipher_info_get_by_name(
                                        ciphers, cipher_conf, name) ]
        /\ UNCHANGED <<now, ciphers, cipher_conf, commonVars, protoVars>>

CipherNext == CipherSetup \/ CipherConfig \/ CipherLookup

SpecCipher == CipherInit /\ [][CipherNext]_vars

\* The positions of the implementations of c that are available
AvailableAt(c) ==
    { j \in 1..Len(c.impls) - 1 :
          c.impls[j].impl.available \in {"none", "true"} }

\* The implementation the claim binds c to
FirstAvailable(c) ==
    IF AvailableAt(c) = {} THEN NULL
    ELSE c.impls[CHOOSE j \in AvailableAt(c) :
                     \A k \in AvailableAt(c) : j <= k].impl

\* C17: after fastd_cipher_init every cipher is bound to the first
\* implementation of its list whose available probe is absent or returns
\* true, and to none when none is available; fastd_cipher_info_get_by_name
\* returns the info of the cipher of that name if an implementation is bound
\* to it, and NULL for an unbound cipher and for an unknown name.
C17_FirstAvailableBound ==
    /\ cipherEv.op = "init" =>
           \A i \in 1..Len(ciphers) : cipher_conf[i] = FirstAvailable(ciphers[i])
    /\ cipherEv.op = "lookup" =>
           /\ \A i \in 1..Len(ciphers) :
                  cipherEv.name = ciphers[i].name =>
                      cipherEv.result = IF cipher_conf[i] # NULL
                                        THEN ciphers[i].info ELSE NULL
           /\ (\A i \in 1..Len(ciphers) : cipherEv.name # ciphers[i].name)
                  => cipherEv.result = NULL

\* C17 witness: fastd_cipher_init has bound the first cipher to its second
\* implementation, the first one being unavailable, and has left the second
\* cipher, none of whose two implementations is available, unbound
C17_Witness ==
    /\ cipherEv.op = "init"
    /\ Len(ciphers[1].impls) = 3 /\ Len(ciphers[2].impls) = 3
    /\ ciphers[1].impls[1].impl.available = "false"
    /\ cipher_conf[1] = ciphers[1].impls[2].impl
    /\ cipher_conf[2] = NULL

----------------------------------------------------------------------------
(* Claims about the record layer *)

\* C1: on one session no nonce is accepted by fastd_method_is_nonce_valid
\* followed by fastd_method_reorder_check more than once.
C1_AtMostOncePerNonce == ~lastRecv.dup

\* C8: an initiator's send_nonce is odd and its receive_nonce even, a
\* responder's the other way round, whatever was sent and accepted since;
\* the nonce of every packet the other end sends passes this end's parity
\* check, and the nonce of every packet this end sent or sends next is
\* rejected by fastd_method_is_nonce_valid when it comes back.
C8_ParityInvariant ==
    /\ common.send_nonce % 2 = (IF commonInitiator THEN 1 ELSE 0)
    /\ common.receive_nonce % 2 = (IF commonInitiator THEN 0 ELSE 1)
    /\ peerSend % 2 = (IF commonInitiator THEN 0 ELSE 1)
    /\ \A n \in 0..peerSend :
          (n % 2 = peerSend % 2) => ParityOk(common, n)
    /\ \A n \in 0..common.send_nonce :
          (n % 2 = common.send_nonce % 2)
              => ~fastd_method_is_nonce_valid(now, common, n)

\* C8 witness: both ends have sent and this end has accepted a packet
C8_Witness ==
    /\ lastRecv.ok
    /\ common.send_nonce > 3
    /\ peerSend > 3
    /\ common.receive_nonce > 1

\* The inbound nonce is of the receive direction's parity
RecvParity(l) == l.nonce % 2 = l.before.receive_nonce % 2

\* Positions (units of 2) the inbound nonce lags the latest accepted one;
\* negative when it is newer
RecvLag(l) == (l.before.receive_nonce - l.nonce) \div 2

\* The latest accepted packet came no longer than reorder_time ago
RecvInTime(l) == l.at - l.before.receive_last <= reorder_time

\* C11: a packet of the right parity that is newer than the latest accepted
\* one, or lags it by at most reorder_count positions, with the latest
\* accepted no longer than reorder_time ago, is accepted if it was not
\* accepted before and rejected if it was: every such packet is accepted
\* exactly once.
C11_ReorderedAcceptedOnce ==
    ( /\ lastRecv.nonce # -1
      /\ RecvParity(lastRecv) /\ RecvInTime(lastRecv)
      /\ RecvLag(lastRecv) # 0
      /\ RecvLag(lastRecv) <= reorder_count )
        => (lastRecv.ok <=> lastRecv.fresh)

\* C12: with the latest accepted packet within reorder_time, a packet not
\* accepted before that lags the latest accepted nonce by exactly
\* reorder_count positions is accepted and one that lags by reorder_count + 1
\* positions is rejected, for reorder_count up to 64.
C12_WindowEdge ==
    ( /\ lastRecv.nonce # -1
      /\ RecvParity(lastRecv) /\ RecvInTime(lastRecv)
      /\ lastRecv.fresh )
        => /\ RecvLag(lastRecv) = reorder_count => lastRecv.ok
           /\ RecvLag(lastRecv) = reorder_count + 1 => ~lastRecv.ok


RecvNewer(l) == l.nonce > l.before.receive_nonce

\* C18 as claimed: fastd_method_is_nonce_valid accepts a nonce only if its
\* parity is that of the receive direction and either it is newer than the
\* last accepted nonce and the last accepted packet is within reorder_time,
\* or it is older by at most reorder_count positions.
C18_ValidOnlyIf ==
    (lastRecv.nonce # -1 /\ lastRecv.valid) =>
        /\ RecvParity(lastRecv)
        /\ \/ RecvNewer(lastRecv) /\ RecvInTime(lastRecv)
           \/ ~RecvNewer(lastRecv) /\ RecvLag(lastRecv) <= reorder_count

\* C18 amended: fastd_method_is_nonce_valid accepts a nonce if and only if
\* its parity is that of the receive direction and either it is newer than
\* the last accepted nonce, whenever that one was accepted, or it is older by
\* at most reorder_count positions (the last accepted nonce itself included)
\* and the last accepted packet is within reorder_time.
C18_ValidIff ==
    lastRecv.nonce # -1 =>
        ( lastRecv.valid <=>
            /\ RecvParity(lastRecv)
            /\ \/ RecvNewer(lastRecv)
               \/ /\ ~RecvNewer(lastRecv)
                  /\ RecvLag(lastRecv) <= reorder_count
                  /\ RecvInTime(lastRecv) )

\* C18 witness: a newer nonce has been found valid, and was then accepted,
\* although the last accepted packet lies more than reorder_time back
C18_Witness ==
    /\ lastRecv.valid /\ RecvNewer(lastRecv) /\ ~RecvInTime(lastRecv)
    /\ lastRecv.ok /\ common.receive_nonce = lastRecv.nonce


\* The ids of the method states a slot refers to
StateIds(session) ==
    IF session.method_state = NULL THEN {} ELSE {session.method_state.id}

\* C19: establish moves the current session, flags included, to the previous
\* slot after freeing the previous slot's state if the current session is
\* valid and the previous one is not, and otherwise frees the current state
\* and leaves the previous slot untouched; the current slot then holds a
\* fresh method state made from the session secret and the initiator flag,
\* with handshakes_cleaned and refreshing false; no state is freed twice, the
\* slots never refer to the same state, and no slot refers to a freed one.
\* When the address claim fails after that, the peer is reset: the two
\* states the slots then hold are freed as well and both slots are empty.
C19_Rollover ==
    [][ev'.op = "establish" =>
        LET st == node[1]
            st1 == node'[1]
            moved == is_session_valid(now, st.session)
                         /\ ~is_session_valid(now, st.old_session)
            rolled == st.freed \cup
                          (IF moved THEN StateIds(st.old_session)
                                    ELSE StateIds(st.session))
            previous == IF moved THEN st.session ELSE st.old_session
            e == CHOOSE e \in estab' \ estab : TRUE
        IN /\ st1.double_free = st.double_free
           /\ StateIds(st1.session) \cap StateIds(st1.old_session) = {}
           /\ (StateIds(st1.session) \cup StateIds(st1.old_session))
                  \cap st1.freed = {}
           /\ IF ev'.outcome = "established"
              THEN /\ st1.old_session = previous
                   /\ st1.freed = rolled
                   /\ ~st1.session.handshakes_cleaned
                   /\ ~st1.session.refreshing
                   /\ st1.session.method_state.id = <<1, nsess'[1]>>
                   /\ st1.session.method_state.id \notin st.freed
                   /\ st1.session.method_state.secret = e.secret
                   /\ st1.session.method_state.initiator = e.initiator
                   /\ st1.session.method_state.common.receive_reorder_seen = {}
                   /\ st1.session.method_state.common.valid_till = now + key_valid
              ELSE /\ st1.old_session = ZeroSession
                   /\ st1.session = ZeroSession
                   /\ st1.freed = rolled \cup StateIds(previous)
                                         \cup {<<1, nsess'[1]>>}]_vars

\* C19 witness: establish has freed the expired state of the previous slot
\* and moved the current session there with its refreshing flag set, and the
\* new current session has the flag clear
C19_Witness ==
    /\ ev.op = "establish" /\ ev.outcome = "established"
    /\ ev.slot = "old_session" /\ ev.freed = 1
    /\ node[1].old_session.refreshing
    /\ node[1].old_session.method_state.id \notin node[1].freed
    /\ ~node[1].session.refreshing

\* C20: check_session_refresh schedules a handshake only for the current
\* session, only when the local side is its initiator and now has reached
\* its refresh_after, and at most once for a session: the refreshing flag it
\* sets stays set for as long as that session is the current one.
C20_RefreshOnce ==
    /\ [](\A n \in Nodes : \A i, j \in 1..Len(node[n].refreshes) :
             node[n].refreshes[i] = node[n].refreshes[j] => i = j)
    /\ [][\A n \in Nodes :
            LET session == node[n].session
            IN /\ node'[n].refreshes # node[n].refreshes =>
                      /\ session.method_state # NULL
                      /\ node'[n].refreshes =
                             Append(node[n].refreshes, session.method_state.id)
                      /\ session.method_state.initiator
                      /\ now >= session.method_state.common.refresh_after
                      /\ node'[n].session.refreshing
                      /\ node'[n].handshake_task
               /\ ( /\ session.refreshing
                    /\ StateIds(node'[n].session) = StateIds(session) )
                      => node'[n].session.refreshing]_vars

\* C20 witness: the current session, an initiator's, has received a packet
\* and sent one after its refresh_after, and one handshake was scheduled
C20_Witness ==
    /\ ev.op = "send" /\ Len(ev.sends) = 1 /\ ev.sends[1].used # "fail"
    /\ node[1].session.refreshing
    /\ node[1].session.method_state.initiator
    /\ node[1].session.method_state.common.receive_last
           >= node[1].session.method_state.common.refresh_after
    /\ node[1].refreshes = << node[1].session.method_state.id >>

\* The last handler run was a protocol_send that sent a packet
SendDone(e) ==
    e.op = "send" /\ Len(e.sends) = 1 /\ e.sends[1].used # "fail"

\* C21: after every successful protocol_send and every successful establish
\* the only keepalive pending for the peer is the one that operation
\* scheduled, due keepalive_interval after it; a protocol_send that fails
\* leaves the pending keepalives as they were.
C21_KeepaliveRearmed ==
    [][/\ ( \/ SendDone(ev')
            \/ ev'.op = "establish" /\ ev'.outcome = "established" )
           => node'[1].keepalives = <<now + keepalive_interval>>
       /\ ( ev'.op = "send" /\ ~SendDone(ev') )
           => node'[1].keepalives = node[1].keepalives]_vars

\* C22: when the address claim in establish fails, establish resets the
\* peer and returns: the peer is not established, neither slot holds a valid
\* session, no keepalive is pending and no packet was sent.
C22_ClaimConflictResets ==
    [][(ev'.op = "establish" /\ ev'.outcome = "reset") =>
          /\ ~node'[1].established
          /\ ~is_session_valid(now, node'[1].session)
          /\ ~is_session_valid(now, node'[1].old_session)
          /\ node'[1].session.method_state = NULL
          /\ node'[1].old_session.method_state = NULL
          /\ node'[1].keepalives = <<>>
          /\ ev'.sends = <<>>
          /\ wire' = wire /\ net' = net]_vars

\* C22 witness: the address claim has failed in a run of establish at a peer
\* that had a session: the run freed that session's state and the new one
C22_Witness ==
    /\ ev.op = "establish" /\ ev.outcome = "reset" /\ ev.freed = 2
    /\ ~node[1].established /\ node[1].keepalives = <<>>
    /\ node[1].session.method_state = NULL

\* C23: a data packet from a peer that is not established gets a handshake
\* scheduled for the peer and is dropped, and nothing else of the peer
\* changes (no session and no reorder state: nothing was decrypted); a packet
\* from an established peer that no session decrypts is dropped and changes
\* nothing at all, so no handshake is scheduled for it.
C23_UnexpectedPacket ==
    [][ev'.op = "recv" =>
        /\ ~node[1].established =>
               /\ node'[1] = [node[1] EXCEPT !.handshake_task = TRUE]
               /\ ev'.via = "none" /\ ev'.freed = 1 /\ ev'.handed = 0
               /\ ev'.sends = <<>>
        /\ (node[1].established /\ ev'.via = "none") =>
               /\ node'[1] = node[1]
               /\ ev'.freed = 1 /\ ev'.handed = 0 /\ ev'.sends = <<>>]_vars

\* C23 witness: a packet has reached the peer after its reset, when it is
\* not established and holds no session: it was dropped and a handshake is
\* scheduled
C23_Witness ==
    /\ ev.op = "recv" /\ ev.via = "none" /\ ev.freed = 1
    /\ ~node[1].established /\ node[1].handshake_task
    /\ node[1].freed # {}
    /\ node[1].session.method_state = NULL

\* C24: the maintenance step, which every handshake entry point runs first,
\* rotates the pool exactly when the current key is not preferred: the
\* current key becomes the previous one and a new key of a new scalar is
\* preferred for 15 and valid for 30 seconds from now; otherwise, and in
\* every other step, the pool stays as it is.  Both pool entries always have
\* preferred_till <= valid_till, and the sender handshake key of every
\* Type 1 and Type 2 message is, when the message is sent, the sender's
\* current key and preferred.
C24_MaintenanceRotates ==
    /\ [](\A n \in Nodes :
             /\ node[n].handshake_key.preferred_till
                    <= node[n].handshake_key.valid_till
             /\ node[n].prev_handshake_key.preferred_till
                    <= node[n].prev_handshake_key.valid_till)
    /\ [][\A n \in Nodes :
            /\ IF /\ ev'.op \in {"init", "handshake"} /\ ev'.node = n
                  /\ ~is_handshake_key_preferred(now, node[n].handshake_key)
               THEN /\ node'[n].prev_handshake_key = node[n].handshake_key
                    /\ node'[n].handshake_key.preferred_till = now + 15
                    /\ node'[n].handshake_key.valid_till = now + 30
                    /\ node'[n].handshake_key.secret_key
                           # node[n].handshake_key.secret_key
                    /\ node'[n].handshake_key.public_key =
                           ecc_25519_scalarmult_base(
                               node'[n].handshake_key.secret_key)
               ELSE /\ node'[n].handshake_key = node[n].handshake_key
                    /\ node'[n].prev_handshake_key = node[n].prev_handshake_key
            /\ \A m \in net' \ net :
                   (m.to = Other(n) /\ m.type \in {1, 2}) =>
                       /\ ev'.node = n
                       /\ m.sender_hk.data = node'[n].handshake_key.public_key
                       /\ is_handshake_key_preferred(now, node'[n].handshake_key)]_vars

\* C24 witness: handling a Type 1 when its current key was no longer
\* preferred but still valid, a daemon has rotated the pool and answered
\* with a Type 2 that carries the new key
C24_Witness ==
    \E n \in Nodes :
        /\ ev.op = "handshake" /\ ev.node = n /\ ev.mtype = 1 /\ ev.nmsgs = 1
        /\ node[n].handshake_key.preferred_till = now + 15
        /\ is_handshake_key_valid(now, node[n].prev_handshake_key)
        /\ \E m \in net : /\ m.type = 2 /\ m.to = Other(n)
                           /\ m.sender_hk.data = node[n].handshake_key.public_key

\* The places <<i, j>> of the list where the cipher is called name, its
\* j-th implementation is called impl and is available
ConfigHits(name, impl) ==
    { h \in (1..Len(ciphers)) \X (1..MaxImpls) :
          /\ ciphers[h[1]].name = name
          /\ h[2] \in AvailableAt(ciphers[h[1]])
          /\ ciphers[h[1]].impls[h[2]].name = impl }

\* C25: fastd_cipher_config(name, impl) returns true and rebinds the named
\* cipher, and no other, to the named implementation when the cipher
\* exists, has an implementation of that name and that implementation is
\* available; in every other case it returns false and leaves every binding
\* as it was.  So whatever was called, each bound implementation is an
\* available one of its own cipher's list.
C25_ConfigRebinds ==
    /\ [][cipherEv'.op = "config" =>
            LET hits == ConfigHits(cipherEv'.name, cipherEv'.impl)
            IN IF hits # {}
               THEN /\ cipherEv'.result = TRUE
                    /\ \E h \in hits :
                           cipher_conf' = [cipher_conf EXCEPT
                               ![h[1]] = ciphers[h[1]].impls[h[2]].impl]
               ELSE /\ cipherEv'.result = FALSE
                    /\ cipher_conf' = cipher_conf]_vars
    /\ [](\A i \in 1..Len(ciphers) :
             LET impl == fastd_cipher_get(ciphers, cipher_conf, ciphers[i].info)
             IN /\ impl = cipher_conf[i]
                /\ impl # NULL =>
                       \E j \in AvailableAt(ciphers[i]) :
                           impl = ciphers[i].impls[j].impl)

\* C25 witness: the configuration has rebound the first cipher from its
\* first implementation, which is available, to its second one, and the
\* second cipher is still bound as fastd_cipher_init left it
C25_Witness ==
    /\ cipherEv.op = "config" /\ cipherEv.result = TRUE
    /\ cipherEv.name = ciphers[1].name
    /\ Len(ciphers[1].impls) = 3 /\ Len(ciphers[2].impls) = 3
    /\ 1 \in AvailableAt(ciphers[1])
    /\ cipher_conf[1] = ciphers[1].impls[2].impl
    /\ 2 \notin AvailableAt(ciphers[2])
    /\ cipher_conf[2] = ciphers[2].impls[1].impl

\* C26: a Type 2 or Type 3 message that is delivered again does not run
\* establish again: no run of establish in a handshake handler gives a
\* daemon a session whose secret an earlier session of that daemon had, and
\* the two slots never hold sessions of the same secret.
C26_NoHandshakeReplay ==
    /\ [][\A n \in Nodes :
            ( /\ ev'.op = "handshake" /\ ev'.node = n
              /\ ev'.outcome = "established" ) =>
                ~\E e \in estab :
                     /\ e.node = n
                     /\ e.secret = node'[n].session.method_state.secret]_vars
    /\ [](\A n \in Nodes :
             ( /\ node[n].session.method_state # NULL
               /\ node[n].old_session.method_state # NULL ) =>
                 node[n].session.method_state.secret
                     # node[n].old_session.method_state.secret)

\* The two entries of a daemon's pool
Pool(st) == {st.handshake_key, st.prev_handshake_key}

\* C27: a handshake key leaves the two-slot pool only when it is no longer
\* valid, so a key generated at t is in one of the slots, and found there by
\* the handlers' lookup, at every time before t + 30; a key that is preferred
\* now, as the key of every message sent is, is still valid 15 s from now.
C27_NoEvictionWhileValid ==
    /\ [][\A n \in Nodes : \A k \in Pool(node[n]) :
            k \notin Pool(node'[n]) => ~is_handshake_key_valid(now, k)]_vars
    /\ [](\A n \in Nodes : \A k \in Pool(node[n]) :
             /\ is_handshake_key_valid(now, k) =>
                    KeySlot(node[n], now, k.public_key) # "none"
             /\ is_handshake_key_preferred(now, k) =>
                    /\ is_handshake_key_valid(now + 15, k)
                    /\ k.valid_till = k.preferred_till + 15)

\* C27 witness: maintenance has run, without rotating, while the previous
\* key had 5 s of validity left; it is still in the pool
C27_Witness ==
    /\ ev.op = "init"
    /\ node[1].prev_handshake_key.valid_till = now + 5
    /\ node[1].handshake_key.preferred_till = now + 5
    /\ nkeys[1] = 2

\* The slot new holds a method state that the slot old did not hold
NewSession(old, new) ==
    /\ new.method_state # NULL
    /\ old.method_state # NULL => new.method_state.id # old.method_state.id

\* C28: handling a Type 1 handshake leaves the peer's current and previous
\* session (handshakes_cleaned and refreshing included), its established flag
\* and its timers as they were and runs establish for nothing; establish runs,
\* and a slot gets a new session, only in the handler of a Type 2 whose tag
\* verifies, as initiator, or of a Type 3 whose tag verifies, as responder.
C28_InitHandlingStateless ==
    [][\A n \in Nodes :
        /\ ( ev'.op = "handshake" /\ ev'.node = n /\ ev'.mtype = 1 ) =>
              /\ node'[n].session = node[n].session
              /\ node'[n].old_session = node[n].old_session
              /\ node'[n].established = node[n].established
              /\ node'[n].keepalives = node[n].keepalives
              /\ node'[n].handshake_task = node[n].handshake_task
              /\ node'[n].refreshes = node[n].refreshes
              /\ node'[n].freed = node[n].freed
              /\ estab' = estab
        /\ ( \/ NewSession(node[n].session, node'[n].session)
             \/ \E e \in estab' \ estab : e.node = n ) =>
              /\ ev'.op = "handshake" /\ ev'.node = n
              /\ ev'.mtype \in {2, 3} /\ ~ev'.badT /\ ~ev'.malformed
              /\ ev'.outcome = "established"
              /\ \A e \in estab' \ estab : e.initiator = (ev'.mtype = 2)]_vars

\* C28 witness: a well-formed Type 1 has been answered by a daemon that
\* holds a current and a previous session with the peer and had run
\* establish twice before
C28_Witness ==
    /\ ev.op = "handshake" /\ ev.mtype = 1 /\ ev.outcome = "responded"
    /\ ev.nmsgs = 1 /\ ~ev.malformed
    /\ node[ev.node].established
    /\ node[ev.node].session.method_state # NULL
    /\ node[ev.node].old_session.method_state # NULL
    /\ Cardinality({ e \in estab : e.node = ev.node }) = 2

\* C29: within a session receive_nonce never decreases; receive_nonce and
\* receive_last change only when a nonce greater than receive_nonce is
\* accepted, to that nonce and to the time of its arrival, and stay as they
\* were when an older nonce inside the window is accepted.
C29_ReceiveNonceMonotone ==
    [][/\ common'.receive_nonce >= common.receive_nonce
       /\ ( \/ common'.receive_nonce # common.receive_nonce
            \/ common'.receive_last # common.receive_last ) =>
              /\ lastRecv'.ok
              /\ lastRecv'.nonce > common.receive_nonce
              /\ lastRecv'.before.receive_nonce = common.receive_nonce
              /\ common'.receive_nonce = lastRecv'.nonce
              /\ common'.receive_last = now
       /\ ( lastRecv'.ok /\ lastRecv'.nonce < common.receive_nonce ) =>
              /\ common'.receive_nonce = common.receive_nonce
              /\ common'.receive_last = common.receive_last]_vars

\* C29 witness: a nonce older than receive_nonce has been accepted, later
\* than the newest one was; receive_nonce and receive_last are as before
C29_Witness ==
    /\ lastRecv.ok /\ lastRecv.valid
    /\ lastRecv.nonce < lastRecv.before.receive_nonce
    /\ common.receive_nonce = lastRecv.before.receive_nonce
    /\ common.receive_last = lastRecv.before.receive_last
    /\ lastRecv.at > common.receive_last
    /\ lastRecv.before.receive_last > 0

====
